---- MODULE Spec2Model ----
(***************************************************************************)
(* A model of the ecl3 array reader (lib/include/ecl3/io.hpp) and of the   *)
(* summary matrix assembler readall (python/ecl3/core.cpp).                *)
(*                                                                         *)
(* The stream is a sequence of bytes.  stream_reader::next and unget are   *)
(* modelled statement by statement on that byte sequence; readall is a     *)
(* client of the reader whose position is the variable pc.                 *)
(*                                                                         *)
(* The summary vector classifier ecl3_params_identifies                    *)
(* (lib/src/summary.cpp) is an operator applied by the specification       *)
(* SpecParams, and columns (python/ecl3/core.cpp), which builds the plan   *)
(* readall is given, is the loop of the specification SpecColumns.         *)
(*                                                                         *)
(* SpecStaging follows the size of readall's staging buffer alone, with    *)
(* the int arithmetic of the code, over more rows than the buffer first    *)
(* holds.                                                                  *)
(***************************************************************************)
EXTENDS Integers, Sequences, FiniteSets, TLC

VARIABLES
    stream,      \* the bytes of the file the reader was opened on
    hostLE,      \* TRUE when the host stores integers little-endian
    offset,      \* the get position of the underlying std::ifstream
    eofbit,      \* eofbit|failbit of the underlying stream (set together)
    last,        \* stream_reader::last, the raw_array handed out by next()
    ungetted,    \* stream_reader::ungetted
    thrown,      \* the exception that left the latest call, "none" if none
    msg,         \* the two integers of a head/tail mismatch message
    hist,        \* history of the calls made so far (for the properties)
    disk,        \* the arrays the file was written from (for the properties)
    pc,          \* readall: position in the function
    rows,        \* readall: rows
    report_step, \* readall: report_step
    buffer,      \* readall: the staging buffer
    rowsize,     \* readall: argument rowsize
    pos,         \* readall: argument pos
    alloc,       \* readall: the calls made to the alloc callback, the result
    ident,       \* ecl3_params_identifies: the arguments and the value returned
    col,         \* columns(): the arguments, the loop index, names and pos
    staging      \* readall: the size of the staging buffer, the row written

vars == << stream, hostLE, offset, eofbit, last, ungetted, thrown, msg, hist,
           disk, pc, rows, report_step, buffer, rowsize, pos, alloc,
           ident, col, staging >>

readerVars == << offset, eofbit, last, ungetted, thrown, msg, hist >>
readallVars == << pc, rows, report_step, buffer, alloc >>
inputVars == << stream, hostLE, disk, rowsize, pos >>
summaryVars == << ident, col, staging >>

----------------------------------------------------------------------------
(* Bounds of the model                                                     *)

\* most arrays in one stream of the reader specification
MaxArrays == 2
\* most calls (next or unget) a client of the reader makes
MaxCalls == 4
\* longest prefix a truncated stream keeps
MaxTrunc == 60
\* columns of the summary (NLIST): elements of a conforming PARAMS array
NList == 2
\* most report steps, and most MINISTEP/PARAMS pairs in one report step,
\* of a conforming summary file
MaxSteps == 2
MaxPairs == 2
\* most arrays in a summary file made of arbitrary arrays
MaxTokens == 3

----------------------------------------------------------------------------
(* Bytes, integers and strings                                             *)

Min(a, b) == IF a < b THEN a ELSE b

\* the 4 bytes of a 32-bit integer, most significant first (on-disk order)
BE32(v) ==
    << (v \div 16777216) % 256, (v \div 65536) % 256,
       (v \div 256) % 256, v % 256 >>

\* the 4 bytes of a 32-bit integer in the byte order of the host
Native32(v, le) ==
    IF le THEN << v % 256, (v \div 256) % 256,
                  (v \div 65536) % 256, (v \div 16777216) % 256 >>
          ELSE BE32(v)

\* the signed 32-bit integer stored in 4 host-order bytes
NativeInt(b, le) ==
    LET hi == IF le THEN b[4] ELSE b[1]
        b2 == IF le THEN b[3] ELSE b[2]
        b3 == IF le THEN b[2] ELSE b[3]
        lo == IF le THEN b[1] ELSE b[4]
    IN  (IF hi >= 128 THEN hi - 256 ELSE hi) * 16777216
            + b2 * 65536 + b3 * 256 + lo

Zeros(n) == [i \in 1..n |-> 0]

\* 8-byte keywords and 4-byte type tags, as ASCII codes
SEQHDR   == << 83, 69, 81, 72, 68, 82, 32, 32 >>
MINISTEP == << 77, 73, 78, 73, 83, 84, 69, 80 >>
PARAMS   == << 80, 65, 82, 65, 77, 83, 32, 32 >>
KEY      == << 75, 69, 89, 32, 32, 32, 32, 32 >>

INTE == << 73, 78, 84, 69 >>
REAL == << 82, 69, 65, 76 >>
DOUB == << 68, 79, 85, 66 >>
CHAR == << 67, 72, 65, 82 >>
MESS == << 77, 69, 83, 83 >>
LOGI == << 76, 79, 71, 73 >>
X231 == << 88, 50, 51, 49 >>
XXXX == << 88, 88, 88, 88 >>

\* C001 .. C099
C0NN == { << 67, 48, 48 + d1, 48 + d2 >> :
            d1 \in 0..9, d2 \in 0..9 } \ { << 67, 48, 48, 48 >> }

----------------------------------------------------------------------------
(* Endian / type primitives (keyword.h)                                    *)

ECL3_BLOCK_SIZE_NUMERIC == 1000
ECL3_BLOCK_SIZE_STRING  == 105

\* the type tags ecl3_typeid accepts
KnownTypes == { INTE, REAL, DOUB, CHAR, MESS, LOGI, X231 } \cup C0NN

\* ecl3_typeid: TRUE when the 4 bytes are a known type tag
TypeIdOk(type) == type \in KnownTypes

\* ecl3_type_size: bytes per element
TypeSize(type) ==
    CASE type \in { INTE, REAL, LOGI } -> 4
      [] type \in { DOUB, CHAR }       -> 8
      [] type = MESS                   -> 0
      [] type \in C0NN                 -> (type[3] - 48) * 10 + (type[4] - 48)
      [] OTHER                         -> 0

\* ecl3_block_size: elements per body record
BlockSize(type) ==
    IF type = CHAR \/ type \in C0NN THEN ECL3_BLOCK_SIZE_STRING
                                    ELSE ECL3_BLOCK_SIZE_NUMERIC

\* the types whose elements ecl3_get_native byte-swaps on a little-endian host
Swapped(type) == type \in { INTE, REAL, DOUB, LOGI }

\* ecl3_get_native on one 32-bit integer: big-endian bytes to a signed value
GetNativeInt(b) ==
    (IF b[1] >= 128 THEN b[1] - 256 ELSE b[1]) * 16777216
        + b[2] * 65536 + b[3] * 256 + b[4]

\* ecl3_get_native on n bytes of elements of a type: every element of a
\* numeric type is byte-reversed on a little-endian host, strings are copied
GetNative(src, type, le) ==
    LET size == TypeSize(type)
    IN  IF le /\ Swapped(type)
        THEN [j \in 1..Len(src) |->
                 src[((j - 1) \div size) * size + (size - 1 - ((j - 1) % size)) + 1]]
        ELSE src

\* ecl3_array_body: the number of elements one call converts
ArrayBodyCount(elems, chunk_size) == Min(elems, chunk_size)

\* ecl3_array_body: ECL3_UNSUPPORTED for the reserved type
ArrayBodyErr(type) == type = X231

----------------------------------------------------------------------------
(* The on-disk format (keyword.h): how a conforming producer writes arrays *)

\* byte k (0-based) of the size-byte big-endian image of the value v >= 0
ElemByte(size, v, k) ==
    IF k < size - 4 THEN 0 ELSE BE32(v)[k - (size - 4) + 1]

\* the body records of count elements base+1, base+2, ... written in blocks
Blocks(type, count, base) ==
    LET size == TypeSize(type)
        B    == BlockSize(type)
        nblk == (count + B - 1) \div B
    IN  [r \in 1..nblk |->
            LET first == (r - 1) * B
                n     == Min(B, count - first)
            IN  [head |-> n * size,
                 data |-> [j \in 1..(n * size) |->
                             ElemByte(size, base + first + 1 + ((j - 1) \div size),
                                      (j - 1) % size)],
                 tail |-> n * size]]

\* a conforming array: count elements of a type, numbered from base+1
Arr(keyword, type, count, base) ==
    [keyword |-> keyword, type |-> type, count |-> count, base |-> base,
     hhead |-> 16, htail |-> 16, good |-> TRUE,
     recs |-> Blocks(type, count, base)]

\* an array written with the given header markers and body records
RawArr(keyword, type, count, hhead, htail, recs) ==
    [keyword |-> keyword, type |-> type, count |-> count, base |-> 0,
     hhead |-> hhead, htail |-> htail, good |-> FALSE, recs |-> recs]

Rec(head, data, tail) == [head |-> head, data |-> data, tail |-> tail]

RECURSIVE EncodeRecs(_)
EncodeRecs(recs) ==
    IF recs = << >> THEN << >>
    ELSE BE32(Head(recs).head) \o Head(recs).data \o BE32(Head(recs).tail)
             \o EncodeRecs(Tail(recs))

\* |head| KEYWORD COUNT TYPE |tail| |head| VALUE1 .. VALUEN |tail| ...
EncodeArray(a) ==
    BE32(a.hhead) \o a.keyword \o BE32(a.count) \o a.type \o BE32(a.htail)
        \o EncodeRecs(a.recs)

RECURSIVE Encode(_)
Encode(arrs) ==
    IF arrs = << >> THEN << >>
    ELSE EncodeArray(Head(arrs)) \o Encode(Tail(arrs))

\* the body a conforming array has in memory: every element in host order
HostBody(a, le) ==
    LET size == TypeSize(a.type)
    IN  [j \in 1..(a.count * size) |->
            LET v == a.base + 1 + ((j - 1) \div size)
                k == (j - 1) % size
            IN  IF le /\ Swapped(a.type)
                THEN (IF k < 4 THEN Native32(v, TRUE)[k + 1] ELSE 0)
                ELSE ElemByte(size, v, k)]

----------------------------------------------------------------------------
(* stream_reader (io.hpp)                                                  *)

\* the bytes an out-of-bounds read may find
JunkBytes == { 0, 170 }

NoMsg == [text |-> "", h |-> 0, t |-> 0]

\* std::istream::read of n bytes at offset o succeeds: the stream is good
\* and holds n more bytes; otherwise eofbit|failbit are set and it throws
CanRead(strm, rd, o, n) == ~rd.eofbit /\ n >= 0 /\ o + n <= Len(strm)

Bytes(strm, o, n) == SubSeq(strm, o + 1, o + n)

\* the reader after a read that failed: a good stream is drained
Drained(strm, rd) ==
    [rd EXCEPT !.offset = IF rd.eofbit THEN rd.offset ELSE Len(strm),
               !.eofbit = TRUE]

\* check_headtail with the two integers of the message exchanged
check_headtail_swapped(head, tail) ==
    IF head = tail
    THEN [thrown |-> "none", msg |-> NoMsg]
    ELSE [thrown |-> "head_tail_error",
          msg |-> [text |-> "head/tail mismatch",
                   h |-> GetNativeInt(tail), t |-> GetNativeInt(head)]]

\* check_headtail: the exception thrown, "none" when the markers are equal
check_headtail(head, tail) ==
    IF head = tail
    THEN [thrown |-> "none", msg |-> NoMsg]
    ELSE [thrown |-> "head_tail_error",
          msg |-> [text |-> "head/tail mismatch",
                   h |-> GetNativeInt(head), t |-> GetNativeInt(tail)]]

\* ecl3_array_header reading the type before the count
ecl3_array_header_swapped(header, body) ==
    [keyword |-> SubSeq(header, 1, 8),
     type    |-> SubSeq(header, 9, 12),
     count   |-> GetNativeInt(SubSeq(header, 13, 16)),
     body    |-> body]

\* ecl3_array_header: keyword, count and type of a 16-byte header
ecl3_array_header(header, body) ==
    [keyword |-> SubSeq(header, 1, 8),
     type    |-> SubSeq(header, 13, 16),
     count   |-> GetNativeInt(SubSeq(header, 9, 12)),
     body    |-> body]

\* stream_reader::read_head
read_head(strm, rd) ==
    LET o == rd.offset
    IN  IF ~CanRead(strm, rd, o, 4)
        THEN \* the failure is caught, eof() is true: the sentinel
             [rd |-> [Drained(strm, rd) EXCEPT !.last.count = -1],
              thrown |-> "none", msg |-> NoMsg]
        ELSE IF ~CanRead(strm, rd, o + 4, 16) \/ ~CanRead(strm, rd, o + 20, 4)
        THEN [rd |-> Drained(strm, rd), thrown |-> "failure", msg |-> NoMsg]
        ELSE LET head   == Bytes(strm, o, 4)
                 header == Bytes(strm, o + 4, 16)
                 tail   == Bytes(strm, o + 20, 4)
                 chk    == check_headtail(head, tail)
             IN  IF chk.thrown # "none"
                 THEN [rd |-> [rd EXCEPT !.offset = o + 24],
                       thrown |-> chk.thrown, msg |-> chk.msg]
                 ELSE [rd |-> [rd EXCEPT
                                 !.offset = o + 24,
                                 !.last = ecl3_array_header(header, rd.last.body)],
                       thrown |-> "none", msg |-> NoMsg]

\* what one body record adds to last.body: the record is elems bytes long,
\* ecl3_array_body converts count elements from it.  When the record is
\* shorter than the elements converted, the conversion reads past the end
\* of the record (junk) and writes past the end of the body.
Segment(data, elems, type, count, le, junk) ==
    LET need == count * TypeSize(type)
    IN  IF need <= elems
        THEN GetNative(SubSeq(data, 1, need), type, le) \o Zeros(elems - need)
        ELSE SubSeq(GetNative(data \o [i \in 1..(need - elems) |-> junk], type, le),
                    1, elems)

\* the loop that stops one element early
MoreRecords_early(remaining) == remaining > 1

\* line 191: while (remaining > 0)
MoreRecords(remaining) == remaining > 0

\* the while loop of stream_reader::read_body
RECURSIVE read_records(_, _, _, _, _, _, _)
read_records(strm, rd, remaining, le, junk, nrec, ub) ==
    LET o    == rd.offset
        type == rd.last.type
        res(r, th, m) == [rd |-> r, thrown |-> th, msg |-> m,
                          nrec |-> nrec, ub |-> ub]
    IN  IF ~MoreRecords(remaining)
        THEN IF remaining # 0
             THEN res(rd, "runtime_error",
                      [NoMsg EXCEPT !.text = "array not terminated correctly"])
             ELSE res(rd, "none", NoMsg)
        ELSE IF ~CanRead(strm, rd, o, 4)
        THEN res(Drained(strm, rd), "failure", NoMsg)
        ELSE LET head  == Bytes(strm, o, 4)
                 elems == GetNativeInt(head)
             IN  IF elems < 0
                 THEN \* buffer.resize of a size beyond max_size
                      res([rd EXCEPT !.offset = o + 4], "length_error", NoMsg)
                 ELSE IF ~CanRead(strm, rd, o + 4, elems)
                         \/ ~CanRead(strm, rd, o + 4 + elems, 4)
                 THEN res(Drained(strm, rd), "failure", NoMsg)
                 ELSE LET data  == Bytes(strm, o + 4, elems)
                          tail  == Bytes(strm, o + 4 + elems, 4)
                          chk   == check_headtail(head, tail)
                          count == ArrayBodyCount(remaining, BlockSize(type))
                          after == [rd EXCEPT !.offset = o + 8 + elems]
                      IN  IF chk.thrown # "none"
                          THEN res(after, chk.thrown, chk.msg)
                          ELSE IF ArrayBodyErr(type)
                          THEN res([after EXCEPT !.last.body = @ \o Zeros(elems)],
                                   "runtime_error",
                                   [NoMsg EXCEPT !.text = "error parsing array body"])
                          ELSE read_records(
                                   strm,
                                   [after EXCEPT !.last.body =
                                       @ \o Segment(data, elems, type, count, le, junk)],
                                   remaining - count, le, junk, nrec + 1,
                                   ub \/ count * TypeSize(type) > elems)

\* stream_reader::read_body
read_body(strm, rd, le, junk) ==
    IF ~TypeIdOk(rd.last.type)
    THEN [rd |-> rd, thrown |-> "invalid_argument",
          msg |-> [NoMsg EXCEPT !.text = "unknown type"],
          nrec |-> 0, ub |-> FALSE]
    ELSE read_records(strm, [rd EXCEPT !.last.body = << >>],
                      rd.last.count, le, junk, 0, FALSE)

\* raw_array::empty
empty(a) == a.count = -1

\* stream_reader::next
next(strm, rd, le, junk) ==
    IF rd.ungetted
    THEN [rd |-> [rd EXCEPT !.ungetted = FALSE], thrown |-> "none",
          msg |-> NoMsg, nrec |-> 0, ub |-> FALSE]
    ELSE LET h == read_head(strm, rd)
         IN  IF h.thrown = "none" /\ ~empty(h.rd.last)
             THEN read_body(strm, h.rd, le, junk)
             ELSE [rd |-> h.rd, thrown |-> h.thrown, msg |-> h.msg,
                   nrec |-> 0, ub |-> FALSE]

\* unget that leaves the flag alone
unget_noop(rd) == rd

\* stream_reader::unget
unget(rd) == [rd EXCEPT !.ungetted = TRUE]

----------------------------------------------------------------------------
(* The files the reader is opened on                                       *)

SeqsUpTo(S, n) == UNION { [1..k -> S] : k \in 0..n }

\* small conforming arrays
SmallArrays ==
    { Arr(KEY, INTE, 2, 0),          \* KEY INTE [1, 2]
      Arr(PARAMS, REAL, 3, 40),
      Arr(KEY, CHAR, 2, 16),
      Arr(SEQHDR, INTE, 0, 0),       \* no body record at all
      Arr(KEY, DOUB, 1, 299) }

\* conforming arrays of one full block, and of one element more
BlockArrays ==
    { Arr(KEY, INTE, ECL3_BLOCK_SIZE_NUMERIC, 0),
      Arr(KEY, INTE, ECL3_BLOCK_SIZE_NUMERIC + 1, 0),
      Arr(KEY, CHAR, ECL3_BLOCK_SIZE_STRING, 0),
      Arr(KEY, CHAR, ECL3_BLOCK_SIZE_STRING + 1, 0) }

One == BE32(1)
Two == BE32(2)

\* arrays no conforming producer writes
BrokenArrays ==
    { \* the header record's tail differs from its head
      RawArr(KEY, INTE, 1, 16, 17, << Rec(4, One, 4) >>),
      \* a body record's tail differs from its head
      RawArr(KEY, INTE, 2, 16, 16, << Rec(8, One \o Two, 12) >>),
      \* a body record longer than the elements the header declares
      RawArr(KEY, INTE, 1, 16, 16, << Rec(8, One \o Two, 8) >>),
      \* a body record shorter than the elements the header declares
      RawArr(KEY, INTE, 2, 16, 16, << Rec(4, One, 4) >>),
      \* two short body records that together hold the declared count
      RawArr(KEY, INTE, 2, 16, 16, << Rec(4, One, 4), Rec(4, Two, 4) >>),
      \* a negative body record marker
      RawArr(KEY, INTE, 1, 16, 16, << Rec(-4, One, -4) >>),
      \* negative header record markers
      RawArr(KEY, INTE, 1, -16, -16, << Rec(4, One, 4) >>),
      \* header record markers that are equal but not 16
      RawArr(KEY, INTE, 1, 20, 20, << Rec(4, One, 4) >>),
      \* the count reserved for the end-of-stream sentinel, and one below it
      RawArr(KEY, INTE, -1, 16, 16, << >>),
      RawArr(KEY, INTE, -2, 16, 16, << >>),
      \* an unknown type tag, and the reserved one
      RawArr(KEY, XXXX, 1, 16, 16, << Rec(4, One, 4) >>),
      RawArr(KEY, X231, 1, 16, 16, << Rec(4, One, 4) >>) }

\* what the properties remember of an array: everything but the body bytes
Slim(a) ==
    [keyword |-> a.keyword, type |-> a.type, count |-> a.count,
     base |-> a.base, hhead |-> a.hhead, htail |-> a.htail, good |-> a.good,
     recs |-> [i \in 1..Len(a.recs) |->
                 [head |-> a.recs[i].head, tail |-> a.recs[i].tail,
                  len |-> Len(a.recs[i].data)]]]

\* a file: the arrays written, and the number of bytes kept (-1: all)
File(arrs, cut) ==
    [bytes |-> IF cut < 0 THEN Encode(arrs) ELSE SubSeq(Encode(arrs), 1, cut),
     disk  |-> [arrs |-> [i \in 1..Len(arrs) |-> Slim(arrs[i])], cut |-> cut]]

GoodFiles ==
    { File(arrs, -1) : arrs \in SeqsUpTo(SmallArrays, MaxArrays) }

BlockFiles ==
    { File(pre \o << b >> \o post, -1) :
        b \in BlockArrays,
        pre \in SeqsUpTo(SmallArrays, 1), post \in SeqsUpTo(SmallArrays, 1) }

BrokenFiles ==
    { File(pre \o << b >> \o post, -1) :
        b \in BrokenArrays,
        pre \in SeqsUpTo(SmallArrays, 1), post \in SeqsUpTo(SmallArrays, 1) }

\* streams that end before the last array does
CutFiles ==
    UNION { { File(arrs, cut) :
                cut \in 0..Min(MaxTrunc, Len(Encode(arrs)) - 1) } :
            arrs \in SeqsUpTo(SmallArrays, MaxArrays) \ { << >> } }

\* a two-record array whose second record has a tail unlike its head
BrokenBlockFiles ==
    { File(<< RawArr(KEY, INTE, ECL3_BLOCK_SIZE_NUMERIC + 1, 16, 16,
                     << Blocks(INTE, ECL3_BLOCK_SIZE_NUMERIC, 0)[1],
                        Rec(4, One, 8) >>) >>, -1) }

ReaderFiles ==
    GoodFiles \cup BlockFiles \cup BrokenFiles \cup BrokenBlockFiles \cup CutFiles

\* a stream written by a conforming producer and not cut short
WellFormed == disk.cut < 0 /\ \A i \in 1..Len(disk.arrs) : disk.arrs[i].good

----------------------------------------------------------------------------
(* State                                                                   *)

\* raw_array as default-constructed: count = 0, the strings zeroed
NoArray ==
    [keyword |-> Zeros(8), type |-> Zeros(4), count |-> 0, body |-> << >>]

NoHist ==
    [op     |-> "none",  \* the latest call: "next" or "unget"
     calls  |-> 0,       \* calls made
     fresh  |-> 0,       \* next() calls not preceded by an unget()
     ungets |-> 0,       \* unget() calls
     from   |-> 0,       \* offset when the latest next() was called
     avail  |-> 0,       \* bytes the stream held past offset at that point
     pending |-> FALSE,  \* the client has called unget() since its last next()
     wasset |-> FALSE,   \* ... and had when the latest next() was called
     nrec   |-> 0,       \* body records the latest next() consumed
     ub     |-> FALSE]   \* the latest next() read out of bounds

NoAlloc == [calls |-> 0, arg |-> -1, size |-> 0, out |-> << >>]

\* no call of ecl3_params_identifies, no call of columns()
NoIdent == [type |-> << >>, keyword |-> << >>, ret |-> -1]
NoCol == [pc |-> "none"]

\* buffer.size() where the buffer is followed by its size alone, the row
\* the latest iteration wrote (-1: none), its resize calls (0 or 1), and
\* whether an int product has left the range of int
NoStaging == [size |-> 0, row |-> -1, resizes |-> 0, ovf |-> FALSE]

Rd == [offset |-> offset, eofbit |-> eofbit, last |-> last,
       ungetted |-> ungetted]

\* the reader as constructed on a file
InitReader ==
    /\ offset = 0
    /\ eofbit = FALSE
    /\ last = NoArray
    /\ ungetted = FALSE
    /\ thrown = "none"
    /\ msg = NoMsg
    /\ hist = NoHist

Init ==
    /\ \E f \in ReaderFiles : stream = f.bytes /\ disk = f.disk
    /\ hostLE \in BOOLEAN
    /\ InitReader
    /\ pc = "client"
    /\ rows = 0
    /\ report_step = 1
    /\ buffer = << >>
    /\ rowsize = 8
    /\ pos = << >>
    /\ alloc = NoAlloc
    /\ ident = NoIdent
    /\ col = NoCol
    /\ staging = NoStaging

\* the reader's variables after a call of next() with result r.  An
\* out-of-bounds access (ub) either goes unnoticed or, when crash is
\* chosen, ends the process.  th and m are the exception the caller throws
\* itself once next() has returned; ung: it calls unget() instead.
SetReader(r, ub, crash, th, m, ung) ==
    /\ offset' = r.rd.offset
    /\ eofbit' = r.rd.eofbit
    /\ last' = r.rd.last
    /\ ungetted' = IF ung THEN unget(r.rd).ungetted ELSE r.rd.ungetted
    /\ thrown' = IF ub /\ crash THEN "crash"
                 ELSE IF r.thrown # "none" THEN r.thrown ELSE th
    /\ msg' = IF r.thrown # "none" THEN r.msg ELSE m
    /\ hist' = [op     |-> IF ung THEN "unget" ELSE "next",
                calls  |-> hist.calls + (IF ung THEN 2 ELSE 1),
                fresh  |-> hist.fresh + (IF hist.pending THEN 0 ELSE 1),
                ungets |-> hist.ungets + (IF ung THEN 1 ELSE 0),
                from   |-> offset,
                avail  |-> Len(stream) - offset,
                pending |-> ung,
                wasset |-> hist.pending,
                nrec   |-> r.nrec,
                ub     |-> ub]

CallNext ==
    \E junk \in JunkBytes, crash \in BOOLEAN :
        LET r == next(stream, Rd, hostLE, junk)
        IN  SetReader(r, r.ub, crash, "none", NoMsg, FALSE)

CallUnget ==
    /\ ungetted' = unget(Rd).ungetted
    /\ hist' = [hist EXCEPT !.op = "unget", !.calls = @ + 1, !.ungets = @ + 1,
                            !.pending = TRUE]
    /\ UNCHANGED << offset, eofbit, last, thrown, msg >>

----------------------------------------------------------------------------
(* A client of the reader: any sequence of next() and unget() calls, with  *)
(* unget() only after a next() (before it, behaviour is undefined), until  *)
(* a call throws.                                                          *)

ClientNext ==
    /\ pc = "client"
    /\ thrown = "none"
    /\ hist.calls < MaxCalls
    /\ CallNext
    /\ UNCHANGED << inputVars, readallVars, summaryVars >>

ClientUnget ==
    /\ pc = "client"
    /\ thrown = "none"
    /\ hist.calls < MaxCalls
    /\ hist.fresh > 0
    /\ CallUnget
    /\ UNCHANGED << inputVars, readallVars, summaryVars >>

Next == ClientNext \/ ClientUnget

Spec == Init /\ [][Next]_vars

----------------------------------------------------------------------------
(* Properties of the reader                                                *)

\* number of arrays the file was written from
NumArrays == Len(disk.arrs)

\* last is array i of the file, as a conforming producer wrote it
LastIs(i) ==
    /\ last.keyword = disk.arrs[i].keyword
    /\ last.type = disk.arrs[i].type
    /\ last.count = disk.arrs[i].count
    /\ last.body = HostBody(disk.arrs[i], hostLE)

\* bytes array a occupies on disk
DiskSize(a) ==
    LET RECURSIVE Sum(_)
        Sum(j) == IF j = 0 THEN 0 ELSE 8 + a.recs[j].len + Sum(j - 1)
    IN  24 + Sum(Len(a.recs))

\* the latest call was a next() that read from the stream and returned
FreshReturn == hist.op = "next" /\ ~hist.wasset /\ thrown = "none"

\* C1: on a well-formed stream of k arrays, with no unget(), the i-th
\* next() returns the i-th array on disk (name, type, count and body) for
\* i <= k, and call k+1 returns the sentinel, count = -1.
C1_InOrder ==
    (WellFormed /\ hist.ungets = 0 /\ hist.calls >= 1)
        => /\ thrown = "none"
           /\ hist.calls <= NumArrays => LastIs(hist.calls)
           /\ hist.calls = NumArrays + 1 => last.count = -1

C1_Witness ==
    /\ WellFormed /\ hist.ungets = 0
    /\ NumArrays = 2 /\ hist.calls = 3
    /\ disk.arrs[1] # disk.arrs[2]
    /\ last.count = -1

\* C2: after unget(), next() hands out the same array again, consumes no
\* byte and clears the flag; the next() after that advances to the array
\* that follows on disk.
C2_SameArrayAgain ==
    [][(hist.pending /\ hist'.op = "next")
          => (last' = last /\ offset' = offset /\ ~ungetted'
              /\ thrown' = "none")]_vars

C2_ThenAdvances ==
    (WellFormed /\ hist.op = "next" /\ hist.fresh <= NumArrays)
        => /\ thrown = "none" /\ ~ungetted
           /\ LastIs(hist.fresh)

\* C2: both parts: the array handed out again untouched after unget(),
\* and the arrays of the file otherwise handed out one after the other
C2_UngetNext == []C2_ThenAdvances /\ C2_SameArrayAgain

\* next(), unget(), next(), next() on two different arrays: the third call
\* returned the first array again, the fourth the second
C2_Witness ==
    /\ WellFormed /\ NumArrays = 2 /\ disk.arrs[1] # disk.arrs[2]
    /\ hist.calls = 4 /\ hist.ungets = 1 /\ hist.fresh = 2
    /\ hist.op = "next" /\ ~hist.wasset
    /\ LastIs(2)

\* C3: every array next() returns (count >= 0) has a body of
\* count * element_size(type) bytes.
C3_BodyLength ==
    (hist.op = "next" /\ thrown = "none" /\ last.count >= 0)
        => Len(last.body) = last.count * TypeSize(last.type)

\* the first record of array a whose markers differ, when every record
\* before it is a conforming one: << head, tail >>, or << >> when none
Mismatch(a) ==
    LET B == BlockSize(a.type) * TypeSize(a.type)
        bad == { j \in 1..Len(a.recs) :
                   /\ a.recs[j].head # a.recs[j].tail
                   /\ a.recs[j].head = a.recs[j].len
                   /\ a.count > (j - 1) * BlockSize(a.type)
                   /\ \A i \in 1..(j - 1) :
                         a.recs[i].head = B /\ a.recs[i].tail = B
                                            /\ a.recs[i].len = B }
    IN  IF a.hhead # a.htail THEN << a.hhead, a.htail >>
        ELSE IF bad # {} /\ TypeIdOk(a.type) /\ ~ArrayBodyErr(a.type)
        THEN LET j == CHOOSE j \in bad : TRUE
             IN  << a.recs[j].head, a.recs[j].tail >>
        ELSE << >>

\* C4: when a record the reader reads, header or body, has a tail unlike
\* its head, next() throws head_tail_error with both markers decoded as
\* big-endian 32-bit integers, and returns no array.
C4_HeadTail ==
    /\ \A i \in 1..NumArrays :
          ( /\ disk.cut < 0
            /\ \A k \in 1..(i - 1) : disk.arrs[k].good
            /\ Mismatch(disk.arrs[i]) # << >>
            /\ hist.fresh >= i )
          => /\ thrown = "head_tail_error"
             /\ hist.fresh = i
             /\ << msg.h, msg.t >> = Mismatch(disk.arrs[i])
    /\ thrown = "head_tail_error"
          => /\ msg.h # msg.t
             /\ Bytes(stream, offset - 4, 4) = BE32(msg.t)

C4_Witness ==
    /\ thrown = "head_tail_error"
    /\ NumArrays >= 2 /\ hist.fresh = 2
    /\ disk.arrs[1].good
    /\ disk.arrs[2].hhead = disk.arrs[2].htail
    /\ Mismatch(disk.arrs[2]) = << 8, 12 >>

\* a head_tail_error on the second body record of an array
C4_WitnessSecondRecord ==
    /\ thrown = "head_tail_error"
    /\ msg.h = 4 /\ msg.t = 8
    /\ Len(disk.arrs[1].recs) = 2

\* offset at which array i of the file starts
ArrayStart(i) ==
    LET RECURSIVE Sum(_)
        Sum(k) == IF k = 0 THEN 0 ELSE DiskSize(disk.arrs[k]) + Sum(k - 1)
    IN  Sum(i - 1)

\* the latest call was a next() that set out to read array i of a file of
\* conforming arrays of which only the first cut bytes exist
CutCall(i) ==
    /\ disk.cut >= 0
    /\ \A k \in 1..NumArrays : disk.arrs[k].good
    /\ hist.op = "next" /\ ~hist.wasset
    /\ i = hist.fresh /\ i <= NumArrays
    /\ ArrayStart(i) <= disk.cut /\ disk.cut < ArrayStart(i + 1)

\* C5: next() returns the sentinel only when no byte of the next head
\* marker is available; a stream that ends after 1 to 3 bytes of a head
\* marker, or inside a header payload, a tail marker or a body record,
\* makes it throw.
C5_CleanEof ==
    \A i \in 1..NumArrays :
        CutCall(i) =>
            IF disk.cut = ArrayStart(i)
            THEN thrown = "none" /\ empty(last)
            ELSE thrown # "none"

\* the part of C5 the code keeps: the sentinel at an array boundary, an
\* exception when the stream ends past the head marker of an array
C5_CutInsideRecord ==
    \A i \in 1..NumArrays :
        CutCall(i) =>
            /\ disk.cut = ArrayStart(i) => thrown = "none" /\ empty(last)
            /\ disk.cut >= ArrayStart(i) + 4 => thrown = "failure"

\* C6: next() consumes ceil(n / B) body records for a header count n >= 0;
\* on a conforming array that is every record of the array, and the body
\* is the decoded elements in on-disk order.
C6_Records ==
    /\ (FreshReturn /\ last.count >= 0)
          => hist.nrec = (last.count + BlockSize(last.type) - 1)
                             \div BlockSize(last.type)
    /\ (WellFormed /\ hist.op = "next" /\ ~hist.wasset
            /\ hist.fresh <= NumArrays)
          => /\ thrown = "none"
             /\ hist.nrec = Len(disk.arrs[hist.fresh].recs)
             /\ offset - hist.from = DiskSize(disk.arrs[hist.fresh])
             /\ last.body = HostBody(disk.arrs[hist.fresh], hostLE)

\* an array of one block and one element more: two records, the second
\* of one element
C6_Witness ==
    /\ WellFormed /\ FreshReturn
    /\ last.count = BlockSize(last.type) + 1
    /\ hist.nrec = 2
    /\ disk.arrs[hist.fresh].recs[2].len = TypeSize(last.type)
    /\ Len(last.body) = last.count * TypeSize(last.type)

C6_WitnessNone == WellFormed /\ FreshReturn /\ last.count = 0 /\ hist.nrec = 0

C6_WitnessOne ==
    /\ WellFormed /\ FreshReturn /\ hist.nrec = 1
    /\ last.count = BlockSize(last.type)

----------------------------------------------------------------------------
(* readall (python/ecl3/core.cpp)                                          *)

\* the summary files readall is run on
Seqhdr == Arr(SEQHDR, INTE, 1, 0)
Ministep(v) == Arr(MINISTEP, INTE, 1, v - 1)
Params(b) == Arr(PARAMS, REAL, NList, b)

\* report steps of n[1], n[2], ... pairs; pair number q of the file has
\* ministep value q - 1 and the PARAMS values 10q + 1, 10q + 2, ...
RECURSIVE StepArrays(_, _)
StepArrays(n, done) ==
    IF n = << >> THEN << >>
    ELSE << Seqhdr >>
         \o LET RECURSIVE Pairs(_)
                Pairs(k) ==
                    IF k = 0 THEN << >>
                    ELSE Pairs(k - 1)
                         \o << Ministep(done + k - 1), Params(10 * (done + k)) >>
            IN  Pairs(Head(n))
         \o StepArrays(Tail(n), done + Head(n))

ConformingSummaries ==
    { File(StepArrays(n, 0), -1) :
        n \in { m \in UNION { [1..k -> 0..MaxPairs] : k \in 1..MaxSteps } :
                  Len(m) > 1 => m[Len(m)] > 0 } }

\* arrays in any order, some of them not what a summary file holds
Tokens ==
    { Seqhdr, Ministep(7), Params(40),
      Arr(KEY, INTE, 2, 0),
      Arr(SEQHDR, REAL, 1, 0),
      Arr(MINISTEP, REAL, 1, 0),
      Arr(MINISTEP, INTE, 2, 4),
      Arr(MINISTEP, INTE, 0, 0),
      Arr(PARAMS, INTE, NList, 40),
      Arr(PARAMS, REAL, 1, 40) }

TokenSummaries == { File(arrs, -1) : arrs \in SeqsUpTo(Tokens, MaxTokens) }

\* one report step of one pair, cut short at every byte
CutSummaries ==
    LET arrs == << Seqhdr, Ministep(7), Params(40) >>
    IN  { File(arrs, cut) : cut \in 0..(Len(Encode(arrs)) - 1) }

\* every PARAMS index, in order
FullPlan == [i \in 1..NList |-> i - 1]

\* the positions readall is given: the lists columns() returns (source
\* indices in increasing order), and one list out of order
Plans ==
    { p \in SeqsUpTo(0..(NList - 1), NList) :
        \A i \in 1..(Len(p) - 1) : p[i] < p[i + 1] }
    \cup { << NList - 1, 0 >> }

\* conforming and truncated files are read with every plan, files of
\* arbitrary arrays with the full plan
InitReadall ==
    /\ \/ /\ \E f \in ConformingSummaries \cup CutSummaries :
                stream = f.bytes /\ disk = f.disk
          /\ pos \in Plans
       \/ /\ \E f \in TokenSummaries : stream = f.bytes /\ disk = f.disk
          /\ pos = FullPlan
    /\ hostLE \in BOOLEAN
    /\ InitReader
    /\ rowsize = 8 + 4 * Len(pos)
    /\ pc = "first"
    /\ rows = 0
    /\ report_step = 1
    /\ buffer = Zeros(64 * rowsize)
    /\ alloc = NoAlloc
    /\ ident = NoIdent
    /\ col = NoCol
    /\ staging = NoStaging

\* expect that accepts every string
expect_any(expected, str) == ""

\* expect: the message of the exception thrown, "" when str is as expected
expect(expected, str) ==
    IF Len(expected) # Len(str) \/ str # expected THEN "expected" ELSE ""

\* end_report_step
end_report_step(kw) == kw.keyword = SEQHDR

Err(text) == [NoMsg EXCEPT !.text = text]

\* std::memcpy(dst, src, Len(src)) into buf at byte offset at
Memcpy(buf, at, src) ==
    [i \in 1..Len(buf) |->
        IF i > at /\ i <= at + Len(src) THEN src[i - at] ELSE buf[i]]

\* the 4 bytes std::memcpy reads at byte offset off of a vector's data:
\* junk when they are not all inside the vector
Read4(body, off, junk) ==
    IF off >= 0 /\ off + 4 <= Len(body)
    THEN SubSeq(body, off + 1, off + 4)
    ELSE << junk, junk, junk, junk >>

Inside4(body, off) == off >= 0 /\ off + 4 <= Len(body)

\* lines 329-342: open the stream, read the first array, expect SEQHDR INTE
ReadallFirst ==
    /\ pc = "first"
    /\ \E junk \in JunkBytes, crash \in BOOLEAN :
        LET r  == next(stream, Rd, hostLE, junk)
            a  == r.rd.last
            th == IF empty(a) THEN "no initial SEQHDR found, file seems broken"
                  ELSE IF expect(SEQHDR, a.keyword) # "" THEN "expected SEQHDR"
                  ELSE IF expect(INTE, a.type) # "" THEN "expected INTE"
                  ELSE ""
        IN  /\ SetReader(r, r.ub, crash,
                         IF th # "" THEN "runtime_error" ELSE "none", Err(th),
                         FALSE)
            /\ pc' = IF thrown' # "none" THEN "error" ELSE "ministep"
    /\ UNCHANGED << inputVars, summaryVars, rows, report_step, buffer, alloc >>

\* the row offset not scaled by the row size
RowOffset_unscaled(r) == r

\* line 373: byte offset of row r in the staging buffer
RowOffset(r) == r * rowsize

\* lines 345-347: the staging buffer doubles when the next row would
\* reach its end
Grown(buf) ==
    IF (rows + 1) * rowsize >= Len(buf) THEN buf \o Zeros(Len(buf)) ELSE buf

\* the loop left at the first SEQHDR after the start as well
LoopExit_seqhdr(a) == empty(a) \/ end_report_step(a)

\* lines 349-355: the loop ends when next() returns the sentinel
LoopExit(a) == empty(a)

\* lines 344-375: the top of the loop: read the array a row starts with
ReadallMinistep ==
    /\ pc = "ministep"
    /\ \E junk \in JunkBytes, crash \in BOOLEAN :
        LET r   == next(stream, Rd, hostLE, junk)
            a   == r.rd.last
            row == r.thrown = "none" /\ ~LoopExit(a) /\ ~end_report_step(a)
            th  == IF ~row THEN ""
                   ELSE IF expect(MINISTEP, a.keyword) # "" THEN "expected MINISTEP"
                   ELSE IF expect(INTE, a.type) # "" THEN "expected INTE"
                   ELSE ""
            wr  == row /\ th = ""
            dst == RowOffset(rows)
        IN  /\ SetReader(r, r.ub \/ (wr /\ ~Inside4(a.body, 0)), crash,
                         IF th # "" THEN "runtime_error" ELSE "none", Err(th),
                         FALSE)
            /\ buffer' = IF wr /\ thrown' = "none"
                         THEN Memcpy(Memcpy(Grown(buffer), dst,
                                            Native32(report_step, hostLE)),
                                     dst + 4, Read4(a.body, 0, junk))
                         ELSE Grown(buffer)
            /\ pc' = IF thrown' # "none" THEN "error"
                     ELSE IF LoopExit(a) THEN "alloc"
                     ELSE IF end_report_step(a) THEN "peek"
                     ELSE "params"
    /\ UNCHANGED << inputVars, summaryVars, rows, report_step, alloc >>

\* lines 357-368: after a SEQHDR: the next array must exist; unget it
ReadallPeek ==
    /\ pc = "peek"
    /\ \E junk \in JunkBytes, crash \in BOOLEAN :
        LET r  == next(stream, Rd, hostLE, junk)
            ok == r.thrown = "none" /\ ~empty(r.rd.last)
        IN  /\ SetReader(r, r.ub, crash,
                         IF ok THEN "none" ELSE "runtime_error",
                         IF ok THEN NoMsg
                         ELSE Err("unexpected end-of-file, expected MINISTEP"),
                         ok)
            /\ pc' = IF thrown' # "none" THEN "error" ELSE "ministep"
    /\ UNCHANGED << inputVars, summaryVars, rows, report_step, buffer, alloc >>

\* the row filled with the first |pos| PARAMS values, whatever pos holds
WriteItems_noplan(buf, dst, body, junk) ==
    [i \in 1..Len(buf) |->
        IF i > dst + 8 /\ i <= dst + 8 + 4 * Len(pos)
        THEN Read4(body, ((i - dst - 9) \div 4) * 4, junk)
                 [((i - dst - 9) % 4) + 1]
        ELSE buf[i]]

\* lines 386-393: the selected PARAMS values, written after the two
\* integers of the row at byte offset dst
WriteItems(buf, dst, body, junk) ==
    [i \in 1..Len(buf) |->
        IF i > dst + 8 /\ i <= dst + 8 + 4 * Len(pos)
        THEN Read4(body, pos[((i - dst - 9) \div 4) + 1] * 4, junk)
                 [((i - dst - 9) % 4) + 1]
        ELSE buf[i]]

\* lines 377-395: read the PARAMS array of the row and complete the row
ReadallParams ==
    /\ pc = "params"
    /\ \E junk \in JunkBytes, crash \in BOOLEAN :
        LET r  == next(stream, Rd, hostLE, junk)
            a  == r.rd.last
            th == IF r.thrown # "none" THEN ""
                  ELSE IF empty(a) THEN "unexpected end-of-file, expected PARAMS"
                  ELSE IF expect(PARAMS, a.keyword) # "" THEN "expected PARAMS"
                  ELSE ""
            wr == r.thrown = "none" /\ th = ""
            ub == wr /\ \E k \in 1..Len(pos) : ~Inside4(a.body, pos[k] * 4)
        IN  /\ SetReader(r, r.ub \/ ub, crash,
                         IF th # "" THEN "runtime_error" ELSE "none", Err(th),
                         FALSE)
            /\ buffer' = IF wr /\ thrown' = "none"
                         THEN WriteItems(buffer, RowOffset(rows), a.body, junk)
                         ELSE buffer
            /\ rows' = IF wr /\ thrown' = "none" THEN rows + 1 ELSE rows
            /\ pc' = IF thrown' # "none" THEN "error" ELSE "ministep"
    /\ UNCHANGED << inputVars, summaryVars, report_step, alloc >>

\* the byte sizes of the buffer the alloc callback may return
AllocSizes == { rows * rowsize, (rows + 1) * rowsize, 0 }

\* the buffer as the callback returns it: size bytes readall has not written
Fresh(size) == [i \in 1..size |-> 255]

\* a buffer larger than the rows accepted as well
AllocSizeOk_larger(size) == size >= rowsize * rows

\* line 400: the byte size of the buffer against the size of the rows
AllocSizeOk(size) == size = rowsize * rows

\* the text of the exception thrown when the buffer of the callback has
\* the wrong size
AllocSizeError == "internal alloc function size error"

\* lines 398-412: hand the rows to the buffer the callback allocates
ReadallAlloc ==
    /\ pc = "alloc"
    /\ \E size \in AllocSizes :
        IF ~AllocSizeOk(size)
        THEN /\ thrown' = "invalid_argument"
             /\ msg' = Err(AllocSizeError)
             /\ alloc' = [calls |-> alloc.calls + 1, arg |-> rows,
                          size |-> size, out |-> Fresh(size)]
             /\ pc' = "error"
        ELSE /\ alloc' = [calls |-> alloc.calls + 1, arg |-> rows,
                          size |-> size,
                          out |-> Memcpy(Fresh(size), 0,
                                         SubSeq(buffer, 1, rows * rowsize))]
             /\ pc' = "done"
             /\ UNCHANGED << thrown, msg >>
    /\ UNCHANGED << inputVars, summaryVars, offset, eofbit, last, ungetted, hist,
                    rows, report_step, buffer >>

NextReadall ==
    \/ ReadallFirst
    \/ ReadallMinistep
    \/ ReadallPeek
    \/ ReadallParams
    \/ ReadallAlloc

SpecReadall == InitReadall /\ [][NextReadall]_vars

----------------------------------------------------------------------------
(* Properties of readall                                                   *)

IsSeqhdr(a) == a.keyword = SEQHDR
IsMinistep(a) == a.keyword = MINISTEP /\ a.type = INTE /\ a.count = 1
IsParams(a) == a.keyword = PARAMS /\ a.type = REAL /\ a.count = NList

\* a data file as a conforming producer writes it: SEQHDR arrays, each
\* followed by MINISTEP/PARAMS pairs, and no SEQHDR at the very end
\* unless it is the only array
ConformingSummary ==
    /\ WellFormed
    /\ NumArrays >= 1
    /\ IsSeqhdr(disk.arrs[1]) /\ disk.arrs[1].type = INTE
    /\ \A i \in 2..NumArrays :
          LET a == disk.arrs[i]
          IN  \/ IsSeqhdr(a) /\ a.type = INTE /\ i < NumArrays
                    /\ ~IsParams(disk.arrs[i + 1])
              \/ IsMinistep(a) /\ i < NumArrays /\ IsParams(disk.arrs[i + 1])
              \/ IsParams(a) /\ IsMinistep(disk.arrs[i - 1])

\* indices of the MINISTEP arrays of the file
MinistepAt == { i \in 1..NumArrays : disk.arrs[i].keyword = MINISTEP }

NumPairs == Cardinality(MinistepAt)

\* index in the file of the MINISTEP array of pair q
PairAt(q) ==
    CHOOSE i \in MinistepAt : Cardinality({ j \in MinistepAt : j <= i }) = q

\* number of SEQHDR arrays up to array i of the file
StepAt(i) == Cardinality({ k \in 1..i : IsSeqhdr(disk.arrs[k]) })

\* 32-bit integer number n (0-based) of row q (1-based) of a row buffer
RowInt(buf, q, n) ==
    NativeInt(SubSeq(buf, (q - 1) * rowsize + 4 * n + 1,
                          (q - 1) * rowsize + 4 * n + 4), hostLE)

\* C7: every row written after the m-th SEQHDR of the file, and before the
\* next one, has report_step = m as its first integer.
C7_ReportStep ==
    ConformingSummary =>
        \A q \in 1..rows : RowInt(buffer, q, 0) = StepAt(PairAt(q))

\* C8: on a conforming file there is one row per MINISTEP/PARAMS pair, in
\* file order: the second integer of row q is the value of the q-th
\* MINISTEP array, and alloc is called with the number of pairs.
C8_RowPerPair ==
    ConformingSummary =>
        /\ rows <= NumPairs
        /\ \A q \in 1..rows :
              RowInt(buffer, q, 1) = disk.arrs[PairAt(q)].base + 1
        /\ thrown \in { "none", "invalid_argument" }
        /\ pc \in { "alloc", "done" } => rows = NumPairs
        /\ alloc.calls > 0 => alloc.calls = 1 /\ alloc.arg = NumPairs
        /\ pc = "done" =>
              /\ Len(alloc.out) = NumPairs * rowsize
              /\ \A q \in 1..NumPairs :
                    RowInt(alloc.out, q, 1) = disk.arrs[PairAt(q)].base + 1

\* two report steps of two pairs each, delivered
C8_Witness ==
    /\ ConformingSummary /\ pc = "done"
    /\ NumPairs = 4 /\ StepAt(NumArrays) = 2
    /\ alloc.arg = 4
    /\ RowInt(alloc.out, 4, 1) = 3

\* C9: a row is report_step, ministep and then, for k = 1 .. |pos|, the
\* element pos[k] of the PARAMS array of the same pair; PARAMS elements
\* not in pos are not in the row.
C9_RowLayout ==
    ConformingSummary =>
        \A q \in 1..rows :
            /\ RowInt(buffer, q, 0) = report_step
            /\ RowInt(buffer, q, 1) = disk.arrs[PairAt(q)].base + 1
            /\ \A k \in 1..Len(pos) :
                  RowInt(buffer, q, 1 + k)
                      = disk.arrs[PairAt(q) + 1].base + pos[k] + 1
            /\ rowsize = 8 + 4 * Len(pos)
            /\ pc = "done" =>
                  SubSeq(alloc.out, (q - 1) * rowsize + 1, q * rowsize)
                      = SubSeq(buffer, (q - 1) * rowsize + 1, q * rowsize)

\* two rows written with a plan that leaves the first PARAMS column out
C9_Witness ==
    /\ ConformingSummary /\ rows = 2 /\ pc = "done"
    /\ pos = << 1 >>
    /\ RowInt(alloc.out, 2, 2) = disk.arrs[PairAt(2) + 1].base + 2

\* the stream holds no array, or starts with a complete array that is not
\* a SEQHDR or is not of type INTE
NoInitialSeqhdr ==
    \/ Len(stream) = 0
    \/ /\ NumArrays >= 1 /\ disk.arrs[1].good
       /\ disk.cut < 0
       /\ disk.arrs[1].keyword # SEQHDR \/ disk.arrs[1].type # INTE

\* C10: readall fails with a broken-file error, calls alloc not at all and
\* writes no row when the stream holds no array or its first array is not
\* a SEQHDR of type INTE.
C10_NoInitialSeqhdr ==
    (NoInitialSeqhdr /\ pc # "first")
        => /\ pc = "error"
           /\ thrown = "runtime_error"
           /\ msg.text \in { "no initial SEQHDR found, file seems broken",
                             "expected SEQHDR", "expected INTE" }
           /\ hist.calls = 1
           /\ rows = 0
           /\ alloc.calls = 0
           /\ buffer = Zeros(64 * rowsize)

C10_Witness ==
    /\ pc = "error" /\ thrown = "runtime_error"
    /\ NumArrays >= 1 /\ disk.arrs[1].keyword = SEQHDR
    /\ disk.arrs[1].type = REAL
    /\ msg.text = "expected INTE"
    /\ alloc.calls = 0

C10_WitnessEmpty ==
    /\ pc = "error" /\ Len(stream) = 0
    /\ msg.text = "no initial SEQHDR found, file seems broken"

C10_WitnessKeyword ==
    /\ pc = "error" /\ NumArrays >= 1 /\ disk.arrs[1].keyword = KEY
    /\ msg.text = "expected SEQHDR"

C11_WitnessError ==
    /\ pc = "error" /\ thrown = "failure" /\ hist.calls = 3 /\ alloc.calls = 0

\* C12: a buffer whose byte size is not rows * rowsize makes readall throw
\* the alloc-size error and is left as the callback returned it; a buffer
\* of that size ends up holding the first rows * rowsize bytes of the
\* staging buffer.
C12_AllocSize ==
    alloc.calls = 1 =>
        IF alloc.size # rows * rowsize
        THEN /\ pc = "error"
             /\ thrown = "invalid_argument"
             /\ msg.text = AllocSizeError
             /\ alloc.out = Fresh(alloc.size)
        ELSE /\ pc = "done"
             /\ thrown = "none"
             /\ Len(alloc.out) = rows * rowsize
             /\ alloc.out = SubSeq(buffer, 1, rows * rowsize)

\* two rows staged and a buffer one row too long
C12_Witness ==
    /\ pc = "error" /\ msg.text = AllocSizeError
    /\ rows = 2 /\ alloc.size = 3 * rowsize

\* two rows staged and copied
C12_WitnessCopied ==
    /\ pc = "done" /\ rows = 2 /\ alloc.size = 2 * rowsize
    /\ alloc.out = SubSeq(buffer, 1, 2 * rowsize)

----------------------------------------------------------------------------
(* The summary vector classifier (lib/src/summary.cpp)                     *)

\* the identifiers of ecl3_params_partial_identifiers, 8 bytes each
WGNAMES == << 87, 71, 78, 65, 77, 69, 83, 32 >>
NUMS == << 78, 85, 77, 83, 32, 32, 32, 32 >>
LGRS == << 76, 71, 82, 83, 32, 32, 32, 32 >>
NUMLX == << 78, 85, 77, 76, 88, 32, 32, 32 >>
NUMLY == << 78, 85, 77, 76, 89, 32, 32, 32 >>
NUMLZ == << 78, 85, 77, 76, 90, 32, 32, 32 >>
\* two keywords of the specification file that are no identifiers
NAMES == << 78, 65, 77, 69, 83, 32, 32, 32 >>
KEYWORDS == << 75, 69, 89, 87, 79, 82, 68, 83 >>

\* ecl3_params_partial_identifiers: the list, without its terminator
ecl3_params_partial_identifiers ==
    << WGNAMES, NUMS, LGRS, NUMLX, NUMLY, NUMLZ >>

\* the keywords the N and S branches compare the whole key with
WNEWTON == << 87, 78, 69, 87, 84, 79, 78, 32 >>
NEWTON == << 78, 69, 87, 84, 79, 78, 32, 32 >>
NAIMFRAC == << 78, 65, 73, 77, 70, 82, 65, 67 >>
NLINEARS == << 78, 76, 73, 78, 69, 65, 82, 83 >>
NLINSMIN == << 78, 76, 73, 78, 83, 77, 73, 78 >>
NLINSMAX == << 78, 76, 73, 78, 83, 77, 65, 88 >>
STEPTYPE == << 83, 84, 69, 80, 84, 89, 80, 69 >>
\* the prefixes the S branch looks for
SGAS == << 83, 71, 65, 83 >>
SOIL == << 83, 79, 73, 76 >>
SWAT == << 83, 87, 65, 84 >>

\* id == WGNAMES ? 1 : 0 with NUMS accepted as well
ByWgnames_nums(id) == IF id = WGNAMES \/ id = NUMS THEN 1 ELSE 0

\* lines 103, 116, 119, 171: id == WGNAMES ? 1 : 0
ByWgnames(id) == IF id = WGNAMES THEN 1 ELSE 0

\* id == NUMS ? 1 : 0 with NUMLX accepted as well
ByNums_numlx(id) == IF id = NUMS \/ id = NUMLX THEN 1 ELSE 0

\* lines 90, 94, 122: id == NUMS ? 1 : 0
ByNums(id) == IF id = NUMS THEN 1 ELSE 0

\* lines 98, 181: (id == WGNAMES or id == NUMS) ? 2 : 0
ByBoth(id) == IF id = WGNAMES \/ id = NUMS THEN 2 ELSE 0

\* the L branch with WGNAMES left out of the LC case
IdentifiesLocal_nowell(id, keyword) ==
    IF keyword[2] = 66
    THEN IF id \in { LGRS, NUMLX, NUMLY, NUMLZ } THEN 4 ELSE 0
    ELSE IF keyword[2] = 67
    THEN IF id \in { LGRS, NUMLX, NUMLY, NUMLZ } THEN 4 ELSE 0
    ELSE IF keyword[2] = 87
    THEN IF id \in { LGRS, WGNAMES } THEN 2 ELSE 0
    ELSE 0

\* the L branch, lines 134-161: the second character decides
IdentifiesLocal(id, keyword) ==
    IF keyword[2] = 66      \* 'B'
    THEN IF id \in { LGRS, NUMLX, NUMLY, NUMLZ } THEN 4 ELSE 0
    ELSE IF keyword[2] = 67 \* 'C'
    THEN IF id \in { LGRS, WGNAMES, NUMLX, NUMLY, NUMLZ } THEN 4 ELSE 0
    ELSE IF keyword[2] = 87 \* 'W'
    THEN IF id \in { LGRS, WGNAMES } THEN 2 ELSE 0
    ELSE 0

\* the S branch that knows no exception
IdentifiesS_noexcept(id, key) == ByBoth(id)

\* the S branch, lines 174-182
IdentifiesS(id, key) ==
    IF key = STEPTYPE THEN 0
    ELSE IF SubSeq(key, 1, 4) \in { SGAS, SOIL, SWAT } THEN 0
    ELSE ByBoth(id)

\* the N branch, lines 165-172
IdentifiesN(id, key) ==
    IF key \in { NEWTON, NAIMFRAC, NLINEARS, NLINSMIN, NLINSMAX } THEN 0
    ELSE ByWgnames(id)

\* ecl3_params_identifies(type, keyword): how many identifiers a vector of
\* this keyword needs when type is one of them, 0 when it is not
ecl3_params_identifies(type, keyword) ==
    LET id == SubSeq(type, 1, 8)
        k0 == keyword[1]
        k1 == keyword[2]
    IN  IF k0 = 65 \/ k0 = 66                       \* 'A', 'B'
        THEN ByNums(id)
        ELSE IF k0 = 67                             \* 'C'
        THEN ByBoth(id)
        ELSE IF k0 = 71                             \* 'G'
        THEN IF k1 = 77 THEN 0                      \* 'M'
             ELSE ByWgnames(id)
        ELSE IF k0 = 87                             \* 'W'
        THEN IF k1 = 77 THEN 0
             ELSE IF SubSeq(keyword, 1, 8) = WNEWTON THEN 0
             ELSE ByWgnames(id)
        ELSE IF k0 = 80                             \* 'P'
        THEN ByWgnames(id)
        ELSE IF k0 = 82                             \* 'R'
        THEN ByNums(id)
        ELSE IF k0 = 76                             \* 'L'
        THEN IdentifiesLocal(id, keyword)
        ELSE IF k0 = 78                             \* 'N'
        THEN IdentifiesN(id, SubSeq(keyword, 1, 8))
        ELSE IF k0 = 83                             \* 'S'
        THEN IdentifiesS(id, SubSeq(keyword, 1, 8))
        ELSE 0

\* the arguments the classifier is called with
Identifiers ==
    { ecl3_params_partial_identifiers[n] :
        n \in 1..Len(ecl3_params_partial_identifiers) }

Types == Identifiers \cup { NAMES, KEYWORDS }

\* first characters: ' ', 'A' .. 'Z' and 'w'; second characters: ' ', 'B',
\* 'C', 'E', 'G', 'M', 'O', 'T', 'W'; then "PR" and blanks
GenericKeywords ==
    { << c0, c1, 80, 82, 32, 32, 32, 32 >> :
        c0 \in (65..90) \cup { 32, 119 },
        c1 \in { 32, 66, 67, 69, 71, 77, 79, 84, 87 } }

\* the reserved keywords and members of the reserved families
ReservedKeywords ==
    { << 71, 77, 67, 84, 80, 32, 32, 32 >>,         \* "GMCTP   "
      << 71, 77, 67, 84, 71, 32, 32, 32 >>,         \* "GMCTG   "
      << 71, 77, 67, 84, 87, 32, 32, 32 >>,         \* "GMCTW   "
      << 71, 77, 67, 80, 76, 32, 32, 32 >>,         \* "GMCPL   "
      << 87, 77, 67, 84, 76, 32, 32, 32 >>,         \* "WMCTL   "
      << 87, 78, 69, 87, 84, 79, 78, 32 >>,         \* "WNEWTON "
      << 78, 69, 87, 84, 79, 78, 32, 32 >>,         \* "NEWTON  "
      << 78, 65, 73, 77, 70, 82, 65, 67 >>,         \* "NAIMFRAC"
      << 78, 76, 73, 78, 69, 65, 82, 83 >>,         \* "NLINEARS"
      << 78, 76, 73, 78, 83, 77, 73, 78 >>,         \* "NLINSMIN"
      << 78, 76, 73, 78, 83, 77, 65, 88 >>,         \* "NLINSMAX"
      << 83, 84, 69, 80, 84, 89, 80, 69 >>,         \* "STEPTYPE"
      << 83, 71, 65, 83, 32, 32, 32, 32 >>,         \* "SGAS    "
      << 83, 79, 73, 76, 32, 32, 32, 32 >>,         \* "SOIL    "
      << 83, 87, 65, 84, 32, 32, 32, 32 >>,         \* "SWAT    "
      << 83, 71, 65, 83, 88, 89, 90, 49 >>,         \* "SGASXYZ1"
      << 83, 79, 73, 76, 49, 32, 32, 32 >>,         \* "SOIL1   "
      << 83, 87, 65, 84, 65, 66, 67, 68 >> }        \* "SWATABCD"

\* keywords one character away from a reserved one, and keywords of the
\* documentation
OtherKeywords ==
    { << 87, 78, 69, 87, 84, 79, 78, 49 >>,         \* "WNEWTON1"
      << 87, 78, 69, 87, 84, 79, 32, 32 >>,         \* "WNEWTO  "
      << 78, 69, 87, 84, 79, 78, 32, 49 >>,         \* "NEWTON 1"
      << 78, 69, 87, 84, 79, 78, 83, 32 >>,         \* "NEWTONS "
      << 78, 65, 73, 77, 70, 82, 65, 32 >>,         \* "NAIMFRA "
      << 78, 76, 73, 78, 69, 65, 82, 32 >>,         \* "NLINEAR "
      << 78, 76, 73, 78, 83, 77, 65, 89 >>,         \* "NLINSMAY"
      << 83, 84, 69, 80, 84, 89, 80, 32 >>,         \* "STEPTYP "
      << 83, 84, 69, 80, 84, 89, 80, 88 >>,         \* "STEPTYPX"
      << 83, 71, 65, 32, 32, 32, 32, 32 >>,         \* "SGA     "
      << 83, 71, 65, 32, 83, 32, 32, 32 >>,         \* "SGA S   "
      << 83, 79, 73, 32, 32, 32, 32, 32 >>,         \* "SOI     "
      << 83, 87, 65, 32, 32, 32, 32, 32 >>,         \* "SWA     "
      << 83, 87, 65, 80, 32, 32, 32, 32 >>,         \* "SWAP    "
      << 83, 79, 76, 73, 32, 32, 32, 32 >>,         \* "SOLI    "
      << 70, 79, 80, 82, 32, 32, 32, 32 >>,         \* "FOPR    "
      << 70, 77, 67, 84, 80, 32, 32, 32 >>,         \* "FMCTP   "
      << 84, 73, 77, 69, 32, 32, 32, 32 >>,         \* "TIME    "
      << 89, 69, 65, 82, 83, 32, 32, 32 >>,         \* "YEARS   "
      << 87, 79, 80, 82, 32, 32, 32, 32 >>,         \* "WOPR    "
      << 87, 87, 67, 84, 32, 32, 32, 32 >>,         \* "WWCT    "
      << 71, 79, 80, 82, 32, 32, 32, 32 >>,         \* "GOPR    "
      << 71, 87, 67, 84, 32, 32, 32, 32 >>,         \* "GWCT    "
      << 67, 79, 70, 82, 32, 32, 32, 32 >>,         \* "COFR    "
      << 76, 66, 79, 80, 82, 32, 32, 32 >>,         \* "LBOPR   "
      << 76, 67, 79, 70, 82, 32, 32, 32 >>,         \* "LCOFR   "
      << 76, 87, 79, 80, 82, 32, 32, 32 >>,         \* "LWOPR   "
      << 76, 79, 80, 82, 32, 32, 32, 32 >>,         \* "LOPR    "
      << 80, 77, 67, 84, 80, 32, 32, 32 >>,         \* "PMCTP   "
      << 119, 79, 80, 82, 32, 32, 32, 32 >>,        \* "wOPR    "
      << 32, 32, 32, 32, 32, 32, 32, 32 >> }        \* "        "

Keywords == GenericKeywords \cup ReservedKeywords \cup OtherKeywords

InitIdle ==
    /\ stream = << >> /\ disk = [arrs |-> << >>, cut |-> -1]
    /\ hostLE = FALSE
    /\ InitReader
    /\ rows = 0
    /\ report_step = 1
    /\ buffer = << >>
    /\ rowsize = 8
    /\ pos = << >>
    /\ alloc = NoAlloc
    /\ staging = NoStaging

InitParams ==
    /\ InitIdle
    /\ pc = "identifies"
    /\ \E t \in Types, k \in Keywords :
          ident = [type |-> t, keyword |-> k, ret |-> -1]
    /\ col = NoCol

\* one call of ecl3_params_identifies
Identify ==
    /\ pc = "identifies"
    /\ ident.ret = -1
    /\ ident' = [ident EXCEPT
                    !.ret = ecl3_params_identifies(ident.type, ident.keyword)]
    /\ UNCHANGED << inputVars, readerVars, readallVars, col, staging >>

NextParams == Identify

SpecParams == InitParams /\ [][NextParams]_vars

----------------------------------------------------------------------------
(* columns (python/ecl3/core.cpp)                                          *)

\* most columns (entries of KEYWORDS) in one call of columns()
MaxCols == 2

\* the two strings is_void knows
VoidName == << 58, 43, 58, 43, 58, 43, 58, 43 >>      \* ":+:+:+:+"
Blank8 == << 32, 32, 32, 32, 32, 32, 32, 32 >>      \* 8 spaces

\* is_void with the blank string taken for a name
is_void_str_noblank(str) == str = VoidName

\* is_void(const std::string&)
is_void_str(str) == str = VoidName \/ str = Blank8

\* is_void(std::int32_t)
is_void_int(i) == i < 0

\* operator<< of an integer: its decimal digits, '-' first when negative
RECURSIVE Digits(_)
Digits(n) ==
    IF n < 10 THEN << 48 + n >>
    ELSE Digits(n \div 10) \o << 48 + (n % 10) >>

Dec(n) == IF n < 0 THEN << 45 >> \o Digits(0 - n) ELSE Digits(n)

\* one of the six blocks of the loop body: when the list is asked for, a
\* void entry ends the iteration (continue), any other entry is appended to
\* the name after the separator
Qualify(st, asked, void, text, sep) ==
    IF st.skip \/ ~asked THEN st
    ELSE IF void THEN [st EXCEPT !.skip = TRUE]
    ELSE [st EXCEPT !.id = @ \o sep \o text]

\* lines 256-294: the name of column i (from 0) of the arguments c, and
\* whether the iteration was left before the name was complete
ColumnId(c, i) ==
    LET kw == c.keywords[i + 1]
        s0 == [skip |-> FALSE, id |-> kw]
        s1 == Qualify(s0, ecl3_params_identifies(WGNAMES, kw) # 0,
                      is_void_str(c.wgnames[i + 1]), c.wgnames[i + 1],
                      c.dtype_separator)
        s2 == Qualify(s1, ecl3_params_identifies(NUMS, kw) # 0,
                      is_void_int(c.nums[i + 1]), Dec(c.nums[i + 1]),
                      c.dtype_separator)
        s3 == Qualify(s2, c.lgrs # << >>
                            /\ ecl3_params_identifies(LGRS, kw) # 0,
                      is_void_str(c.lgrs[i + 1]), c.lgrs[i + 1],
                      c.dtype_separator)
        s4 == Qualify(s3, c.numlx # << >>
                            /\ ecl3_params_identifies(NUMLX, kw) # 0,
                      is_void_int(c.numlx[i + 1]), Dec(c.numlx[i + 1]),
                      c.dtype_separator)
        s5 == Qualify(s4, c.numly # << >>
                            /\ ecl3_params_identifies(NUMLY, kw) # 0,
                      is_void_int(c.numly[i + 1]), Dec(c.numly[i + 1]),
                      c.dtype_separator)
    IN  Qualify(s5, c.numlz # << >>
                      /\ ecl3_params_identifies(NUMLZ, kw) # 0,
                is_void_int(c.numlz[i + 1]), Dec(c.numlz[i + 1]),
                c.dtype_separator)

\* the loop body without the search for the name
Duplicate_never(names, name) == FALSE

\* lines 297-299: std::find(names.begin(), names.end(), name) != names.end()
Duplicate(names, name) == \E k \in 1..Len(names) : names[k] = name

\* the entries of one column: keyword, WGNAMES, NUMS, LGRS, NUMLX, NUMLY,
\* NUMLZ
Entry(kw, wg, num, lgr, nx, ny, nz) ==
    [kw |-> kw, wg |-> wg, num |-> num, lgr |-> lgr,
     nx |-> nx, ny |-> ny, nz |-> nz]

WOPR == << 87, 79, 80, 82, 32, 32, 32, 32 >>       \* "WOPR    "
COFR == << 67, 79, 70, 82, 32, 32, 32, 32 >>       \* "COFR    "
FOPR == << 70, 79, 80, 82, 32, 32, 32, 32 >>       \* "FOPR    "
BPR == << 66, 80, 82, 32, 32, 32, 32, 32 >>       \* "BPR     "
LCOFR == << 76, 67, 79, 70, 82, 32, 32, 32 >>       \* "LCOFR   "
LBOPR == << 76, 66, 79, 80, 82, 32, 32, 32 >>       \* "LBOPR   "
LWOPR == << 76, 87, 79, 80, 82, 32, 32, 32 >>       \* "LWOPR   "
Well1 == << 87, 69, 76, 76, 49, 32, 32, 32 >>       \* "WELL1   "
Well2 == << 87, 69, 76, 76, 50, 32, 32, 32 >>       \* "WELL2   "
AlmostVoid == << 58, 43, 58, 43, 58, 43, 58, 32 >>       \* ":+:+:+: "
Lgr1 == << 76, 71, 82, 49, 32, 32, 32, 32 >>       \* "LGR1    "

\* the columns a call is made of
Entries ==
    { Entry(WOPR, wg, -1, VoidName, -1, -1, -1) :
        wg \in { Well1, Well2, VoidName, Blank8, AlmostVoid } }
    \cup { Entry(WOPR, Well1, 7, Lgr1, 1, 1, 1) }
    \cup { Entry(COFR, wg, num, Blank8, 1, 1, 1) :
             wg \in { Well1, VoidName }, num \in { -1, 0, 12 } }
    \cup { Entry(FOPR, VoidName, -1, VoidName, -1, -1, -1) }
    \cup { Entry(BPR, Blank8, num, Lgr1, -1, 1, 1) : num \in { -1, 12 } }
    \cup { Entry(LCOFR, Well1, -1, lgr, 1, 2, nz) :
             lgr \in { Lgr1, VoidName }, nz \in { -1, 3 } }
    \cup { Entry(LBOPR, VoidName, -1, Lgr1, nx, 2, 3) : nx \in { -1, 1 } }
    \cup { Entry(LWOPR, wg, 0, Lgr1, -1, -1, -1) : wg \in { Well1, Blank8 } }

\* the separators: ":" and the empty string
Separators == { << 58 >>, << >> }

\* the arguments of a call: the lists of the columns es; LGRS and the three
\* NUML lists are empty when not supplied
Args(es, withLgrs, withNuml, sep) ==
    [keywords |-> [k \in 1..Len(es) |-> es[k].kw],
     wgnames  |-> [k \in 1..Len(es) |-> es[k].wg],
     nums     |-> [k \in 1..Len(es) |-> es[k].num],
     lgrs     |-> IF withLgrs THEN [k \in 1..Len(es) |-> es[k].lgr] ELSE << >>,
     numlx    |-> IF withNuml THEN [k \in 1..Len(es) |-> es[k].nx] ELSE << >>,
     numly    |-> IF withNuml THEN [k \in 1..Len(es) |-> es[k].ny] ELSE << >>,
     numlz    |-> IF withNuml THEN [k \in 1..Len(es) |-> es[k].nz] ELSE << >>,
     dtype_separator |-> sep]

InitColumns ==
    /\ InitIdle
    /\ pc = "columns"
    /\ ident = NoIdent
    /\ \E n \in 1..MaxCols :
       \E es \in [1..n -> Entries], withLgrs, withNuml \in BOOLEAN,
          sep \in Separators :
          col = [pc |-> "loop", args |-> Args(es, withLgrs, withNuml, sep),
                 i |-> 0, names |-> << >>, pos |-> << >>]

\* lines 253-303: one iteration of the loop
ColumnsStep ==
    /\ pc = "columns"
    /\ col.pc = "loop"
    /\ col.i < Len(col.args.keywords)
    /\ LET st == ColumnId(col.args, col.i)
       IN  col' = IF st.skip \/ Duplicate(col.names, st.id)
                  THEN [col EXCEPT !.i = @ + 1]
                  ELSE [col EXCEPT !.i = @ + 1,
                                   !.names = Append(@, st.id),
                                   !.pos = Append(@, col.i)]
    /\ UNCHANGED << inputVars, readerVars, readallVars, ident, staging >>

\* line 305: return the names and the positions
ColumnsReturn ==
    /\ pc = "columns"
    /\ col.pc = "loop"
    /\ col.i = Len(col.args.keywords)
    /\ col' = [col EXCEPT !.pc = "returned"]
    /\ UNCHANGED << inputVars, readerVars, readallVars, ident, staging >>

NextColumns == ColumnsStep \/ ColumnsReturn

SpecColumns == InitColumns /\ [][NextColumns]_vars

----------------------------------------------------------------------------
(* Properties of the classifier                                            *)

\* the call has returned
Identified == ident.ret >= 0

\* the reserved keywords: the names listed, every G or W keyword with the
\* second character M, every S keyword that starts with SGAS, SOIL or SWAT
Reserved(k) ==
    \/ k \in { << 71, 77, 67, 84, 80, 32, 32, 32 >>,   \* "GMCTP   "
               << 71, 77, 67, 84, 71, 32, 32, 32 >>,   \* "GMCTG   "
               << 71, 77, 67, 84, 87, 32, 32, 32 >>,   \* "GMCTW   "
               << 71, 77, 67, 80, 76, 32, 32, 32 >>,   \* "GMCPL   "
               << 87, 77, 67, 84, 76, 32, 32, 32 >>,   \* "WMCTL   "
               WNEWTON, NEWTON, NAIMFRAC, NLINEARS, NLINSMIN, NLINSMAX,
               STEPTYPE }
    \/ k[1] \in { 71, 87 } /\ k[2] = 77
    \/ k[1] = 83 /\ SubSeq(k, 1, 4) \in { SGAS, SOIL, SWAT }

\* C13: a keyword that begins with G, P or W and is not reserved is
\* identified by WGNAMES, with 1, and by no other identifier of the list.
C13_WellGroup ==
    (Identified /\ ident.keyword[1] \in { 71, 80, 87 }
        /\ ~Reserved(ident.keyword) /\ ident.type \in Identifiers)
        => ident.ret = IF ident.type = WGNAMES THEN 1 ELSE 0

C13_Witness ==
    /\ Identified /\ ident.type = WGNAMES /\ ident.ret = 1
    /\ ident.keyword = << 87, 79, 80, 82, 32, 32, 32, 32 >>    \* "WOPR    "

C13_WitnessOther ==
    /\ Identified /\ ident.type = NUMS /\ ident.ret = 0
    /\ ident.keyword = << 71, 79, 80, 82, 32, 32, 32, 32 >>    \* "GOPR    "

\* C14: a reserved keyword is identified by nothing.
C14_Reserved ==
    (Identified /\ Reserved(ident.keyword)) => ident.ret = 0

C14_Witness ==
    /\ Identified /\ ident.ret = 0 /\ ident.type = WGNAMES
    /\ ident.keyword = << 83, 87, 65, 84, 65, 66, 67, 68 >>    \* "SWATABCD"

C14_WitnessNewton ==
    /\ Identified /\ ident.ret = 0 /\ ident.type = WGNAMES
    /\ ident.keyword = WNEWTON

\* C15: the other first letters: A, B, R by NUMS with 1; C by WGNAMES and
\* NUMS with 2; N, when not reserved, by WGNAMES with 1; S, when not
\* reserved, by WGNAMES and NUMS with 2; any first character other than
\* A, B, C, G, L, N, P, R, S, W by nothing.
C15_RuleTable ==
    Identified =>
        LET k  == ident.keyword
            id == ident.type
        IN  /\ k[1] \in { 65, 66, 82 }
                  => ident.ret = IF id = NUMS THEN 1 ELSE 0
            /\ k[1] = 67
                  => ident.ret = IF id \in { WGNAMES, NUMS } THEN 2 ELSE 0
            /\ (k[1] = 78 /\ ~Reserved(k))
                  => ident.ret = IF id = WGNAMES THEN 1 ELSE 0
            /\ (k[1] = 83 /\ ~Reserved(k))
                  => ident.ret = IF id \in { WGNAMES, NUMS } THEN 2 ELSE 0
            /\ k[1] \notin { 65, 66, 67, 71, 76, 78, 80, 82, 83, 87 }
                  => ident.ret = 0

C15_Witness ==
    /\ Identified /\ ident.type = NUMS /\ ident.ret = 2
    /\ ident.keyword = << 67, 79, 70, 82, 32, 32, 32, 32 >>    \* "COFR    "

C15_WitnessNone ==
    /\ Identified /\ ident.type = WGNAMES /\ ident.ret = 0
    /\ ident.keyword = << 70, 79, 80, 82, 32, 32, 32, 32 >>    \* "FOPR    "

IdentifiedBy(k) ==
    { S \in Identifiers : ecl3_params_identifies(S, k) > 0 }

\* C17: a positive value returned for a keyword is the number of
\* identifiers of the list that identify the keyword.
C17_Consistent ==
    (Identified /\ ident.ret > 0)
        => ident.ret = Cardinality(IdentifiedBy(ident.keyword))

----------------------------------------------------------------------------
(* Properties of columns                                                   *)

\* the list of identifier S was given to the call with arguments c
Supplied(c, S) ==
    IF S = LGRS THEN c.lgrs # << >>
    ELSE IF S = NUMLX THEN c.numlx # << >>
    ELSE IF S = NUMLY THEN c.numly # << >>
    ELSE IF S = NUMLZ THEN c.numlz # << >>
    ELSE TRUE

\* the entry of column i (from 0) in the list of identifier S
EntryOf(c, S, i) ==
    IF S = WGNAMES THEN c.wgnames[i + 1]
    ELSE IF S = NUMS THEN c.nums[i + 1]
    ELSE IF S = LGRS THEN c.lgrs[i + 1]
    ELSE IF S = NUMLX THEN c.numlx[i + 1]
    ELSE IF S = NUMLY THEN c.numly[i + 1]
    ELSE c.numlz[i + 1]

\* a void entry: the string ":+:+:+:+" or 8 spaces, or an integer < 0
VoidEntry(c, S, i) ==
    IF S \in { WGNAMES, LGRS }
    THEN EntryOf(c, S, i) \in { VoidName, Blank8 }
    ELSE EntryOf(c, S, i) < 0

\* S identifies the keyword of column i and its list was supplied
Qualifies(c, S, i) ==
    ecl3_params_identifies(S, c.keywords[i + 1]) > 0 /\ Supplied(c, S)

VoidCol(c, i) ==
    \E S \in Identifiers : Qualifies(c, S, i) /\ VoidEntry(c, S, i)

\* the qualified name of column i: the keyword, then separator and entry
\* for each identifier that qualifies, in the order of the identifier list
RECURSIVE QTail(_, _, _)
QTail(c, i, n) ==
    IF n > Len(ecl3_params_partial_identifiers) THEN << >>
    ELSE LET S == ecl3_params_partial_identifiers[n]
         IN  (IF Qualifies(c, S, i)
              THEN c.dtype_separator
                   \o (IF S \in { WGNAMES, LGRS } THEN EntryOf(c, S, i)
                       ELSE Dec(EntryOf(c, S, i)))
              ELSE << >>)
             \o QTail(c, i, n + 1)

QName(c, i) == c.keywords[i + 1] \o QTail(c, i, 1)

\* column i has the qualified name of an earlier column
DupCol(c, i) ==
    \E j \in 0..(i - 1) : ~VoidCol(c, j) /\ QName(c, j) = QName(c, i)

InPlan(i) == \E k \in 1..Len(col.pos) : col.pos[k] = i

\* C18: a column the loop has passed is left out of the plan exactly when a
\* supplied identifier list that identifies its keyword holds a void entry
\* for it, or its qualified name is that of an earlier column.
C18_VoidColumns ==
    col.pc # "none" =>
        \A i \in 0..(col.i - 1) :
            ~InPlan(i) <=> (VoidCol(col.args, i) \/ DupCol(col.args, i))

\* WOPR with a void well name is left out; FOPR with the same void well
\* name, which does not identify it, is kept
C18_Witness ==
    /\ col.pc = "returned"
    /\ col.args.keywords = << WOPR, FOPR >>
    /\ col.args.wgnames = << VoidName, VoidName >>
    /\ col.pos = << 1 >>

\* a void NUMLZ entry removes an LC column only when NUMLZ is supplied
C18_WitnessSupplied ==
    /\ col.pc = "returned"
    /\ col.args.keywords = << LCOFR >>
    /\ col.args.lgrs # << >> /\ col.args.numlz = << >>
    /\ col.args.wgnames = << Well1 >>
    /\ col.args.lgrs = << Lgr1 >>
    /\ VoidCol([col.args EXCEPT !.numlz = << -1 >>, !.numlx = << 1 >>,
                                !.numly = << 2 >>], 0)
    /\ col.pos = << 0 >>

\* C19: the names of the plan are pairwise distinct, each is the qualified
\* name of the column recorded for it, and that column is the first one
\* with this name.
C19_DistinctNames ==
    col.pc # "none" =>
        /\ Len(col.names) = Len(col.pos)
        /\ \A k, l \in 1..Len(col.names) :
              k # l => col.names[k] # col.names[l]
        /\ \A k \in 1..Len(col.names) :
              /\ col.pos[k] \in 0..(col.i - 1)
              /\ ~VoidCol(col.args, col.pos[k])
              /\ col.names[k] = QName(col.args, col.pos[k])
              /\ \A j \in 0..(col.pos[k] - 1) :
                    ~VoidCol(col.args, j)
                        => QName(col.args, j) # col.names[k]
        /\ \A j \in 0..(col.i - 1) :
              ~VoidCol(col.args, j)
                  => \E k \in 1..Len(col.names) :
                        col.names[k] = QName(col.args, j)

\* two columns of one name: the first is kept
C19_Witness ==
    /\ col.pc = "returned"
    /\ Len(col.args.keywords) = 2
    /\ ~VoidCol(col.args, 0) /\ ~VoidCol(col.args, 1)
    /\ QName(col.args, 0) = QName(col.args, 1)
    /\ col.pos = << 0 >>
    /\ Len(col.names) = 1

\* two columns that differ in an entry no identifier asks for
C19_WitnessEntries ==
    /\ C19_Witness
    /\ col.args.lgrs # << >>
    /\ col.args.lgrs[1] # col.args.lgrs[2]

----------------------------------------------------------------------------
(* Framing of the records the reader accepts                               *)

\* the head marker of the record at offset o of the stream, as an integer
HeadAt(o) == NativeInt(Bytes(stream, o, 4), FALSE)

\* the record at offset o has a tail equal to its head, h payload bytes
\* away from it
FramedAt(o, h) ==
    /\ h >= 0
    /\ o + 8 + h <= Len(stream)
    /\ Bytes(stream, o, 4) = Bytes(stream, o + 4 + h, 4)

\* n records from offset o on, each with as many payload bytes as its head
\* says and a tail equal to its head, end at offset e
RECURSIVE BodyFramed(_, _, _)
BodyFramed(o, n, e) ==
    IF n = 0 THEN o = e
    ELSE /\ FramedAt(o, HeadAt(o))
         /\ BodyFramed(o + 8 + HeadAt(o), n - 1, e)

\* next() has read an array from the stream and returned it
Accepted == FreshReturn /\ last.count >= 0

\* C20: every record of an array the reader accepts has head == tail and
\* holds as many payload bytes as its head says: the header record has
\* head == tail == 16, and the body records that follow it end where the
\* reader stopped.
C20_Framing ==
    Accepted =>
        /\ HeadAt(hist.from) = 16
        /\ FramedAt(hist.from, 16)
        /\ BodyFramed(hist.from + 24, hist.nrec, offset)

\* the part of C20 the reader keeps: the 16 bytes it takes for the header
\* lie between two equal markers, and every body record is framed
C20_EqualMarkers ==
    Accepted =>
        /\ FramedAt(hist.from, 16)
        /\ BodyFramed(hist.from + 24, hist.nrec, offset)

\* an array whose header record says 20 between its markers, accepted
C20_WitnessHeader ==
    /\ Accepted
    /\ HeadAt(hist.from) = 20
    /\ last.count = 1 /\ hist.nrec = 1

----------------------------------------------------------------------------
(* Properties of the body loop of stream_reader::read_body                 *)

\* elements the first j body records of array a hold between them
RECURSIVE Held(_, _)
Held(a, j) ==
    IF j = 0 THEN 0
    ELSE a.recs[j].len \div TypeSize(a.type) + Held(a, j - 1)

\* array a is a header record and framed body records of whole elements
Framed(a) ==
    /\ a.hhead = 16 /\ a.htail = 16
    /\ TypeIdOk(a.type) /\ ~ArrayBodyErr(a.type) /\ TypeSize(a.type) > 0
    /\ a.count >= 0
    /\ \A j \in 1..Len(a.recs) :
          /\ a.recs[j].head = a.recs[j].len /\ a.recs[j].tail = a.recs[j].len
          /\ a.recs[j].len % TypeSize(a.type) = 0

\* the body of array a comes in irregular segments: every record holds at
\* least one element and no more than min(remaining, block length), one of
\* them holds fewer, and together they hold count elements
Segmented(a) ==
    /\ Framed(a)
    /\ Held(a, Len(a.recs)) = a.count
    /\ \A j \in 1..Len(a.recs) :
          /\ Held(a, j) > Held(a, j - 1)
          /\ Held(a, j) - Held(a, j - 1)
                 <= Min(a.count - Held(a, j - 1), BlockSize(a.type))
    /\ \E j \in 1..Len(a.recs) :
          Held(a, j) - Held(a, j - 1)
              < Min(a.count - Held(a, j - 1), BlockSize(a.type))

\* the latest call was a next() that set out to read array i of a complete
\* file, every array before it a conforming one
ReadOf(i) ==
    /\ disk.cut < 0
    /\ \A k \in 1..(i - 1) : disk.arrs[k].good
    /\ hist.op = "next" /\ ~hist.wasset
    /\ hist.fresh = i

\* C21: an array whose body records are irregular segments that sum to the
\* header count is accepted: next() reads every one of its records,
\* subtracting the elements each record held, and returns the concatenated
\* body.
C21_IrregularSegments ==
    \A i \in 1..NumArrays :
        (ReadOf(i) /\ Segmented(disk.arrs[i]))
            => /\ thrown = "none"
               /\ hist.nrec = Len(disk.arrs[i].recs)
               /\ offset - hist.from = DiskSize(disk.arrs[i])
               /\ last.count = disk.arrs[i].count
               /\ last.body = HostBody(disk.arrs[i], hostLE)

\* C22: an array whose body records together hold more or fewer elements
\* than the header count makes next() fail with the array-not-terminated
\* error.
C22_NotTerminated ==
    \A i \in 1..NumArrays :
        (ReadOf(i) /\ Framed(disk.arrs[i])
             /\ Held(disk.arrs[i], Len(disk.arrs[i].recs)) # disk.arrs[i].count)
            => /\ thrown = "runtime_error"
               /\ msg.text = "array not terminated correctly"

\* the error is thrown for a header count below -1 only
C22_NegativeCount ==
    (hist.op = "next" /\ msg.text = "array not terminated correctly")
        => last.count < -1 /\ hist.nrec = 0

----------------------------------------------------------------------------
(* Properties of the loop of readall                                       *)

\* the step reads the array a row must start with: the one after the
\* initial SEQHDR, after a PARAMS or after a later SEQHDR, and it is
\* neither the sentinel nor a SEQHDR
RowStart == pc = "ministep" /\ ~empty(last') /\ ~end_report_step(last')

\* the step leaves readall failed, with the rows it had
Rejected ==
    /\ pc' = "error" /\ thrown' # "none"
    /\ rows' = rows
    /\ SubSeq(buffer', 1, Len(buffer)) = buffer

\* C23: readall fails, without writing a row, when the array a row must
\* start with is not named MINISTEP, is not of type INTE or does not have
\* exactly one element.
C23_RowStart ==
    [][(RowStart /\ (last'.keyword # MINISTEP \/ last'.type # INTE
                        \/ last'.count # 1))
          => Rejected]_vars

\* the part of C23 the code keeps: the name and the type are checked
C23_NameAndType ==
    [][(RowStart /\ (last'.keyword # MINISTEP \/ last'.type # INTE))
          => Rejected /\ thrown' \in { "runtime_error", "failure" }]_vars

\* C24: readall fails, and the row of the MINISTEP is not counted, when the
\* array that follows a MINISTEP is not named PARAMS or is not of type REAL.
C24_ParamsArray ==
    [][(pc = "params" /\ ~empty(last')
            /\ (last'.keyword # PARAMS \/ last'.type # REAL))
          => (pc' = "error" /\ thrown' # "none" /\ rows' = rows)]_vars

\* the part of C24 the code keeps: the name is checked
C24_Name ==
    [][(pc = "params" /\ ~empty(last') /\ last'.keyword # PARAMS)
          => (pc' = "error" /\ thrown' # "none" /\ rows' = rows)]_vars


\* the step calls next() with the stream at its end, right after the
\* initial SEQHDR or a PARAMS array
EndAfterSeqhdrOrParams == pc = "ministep" /\ ~ungetted /\ offset = Len(stream)

UnexpectedEof ==
    /\ pc' = "error" /\ thrown' = "runtime_error"
    /\ msg'.text \in { "unexpected end-of-file, expected MINISTEP",
                       "unexpected end-of-file, expected PARAMS" }
    /\ alloc' = NoAlloc

\* C25: readall ends its loop and goes on to alloc exactly when the end of
\* the stream is reached right after the initial SEQHDR or right after a
\* PARAMS array; the end of the stream right after a later SEQHDR or right
\* after a MINISTEP is an unexpected-EOF error, and alloc is not called.
C25_Termination ==
    [][/\ pc' = "alloc" <=> EndAfterSeqhdrOrParams
       /\ (pc \in { "peek", "params" } /\ offset = Len(stream))
             => UnexpectedEof]_vars

\* the part of C25 the code keeps: the loop ends exactly when next()
\* returns the sentinel at the top of the loop, which it does when fewer
\* than 4 bytes are left; the sentinel anywhere else is an error
C25_SentinelPlaces ==
    [][/\ pc' = "alloc"
             <=> (pc = "ministep" /\ ~ungetted /\ Len(stream) - offset < 4)
       /\ (pc \in { "peek", "params" } /\ Len(stream) - offset < 4)
             => UnexpectedEof]_vars

----------------------------------------------------------------------------
(* readall: the arithmetic of the staging buffer (python/ecl3/core.cpp).   *)
(* The buffer is followed by its size alone and the file by the kind of    *)
(* iteration each of its arrays gives, so that the loop can run for more   *)
(* rows than the buffer first holds.                                       *)

MaxRows == 130

\* the row sizes readall is called with: 8 bytes and 4 bytes a column
RowSizes == { 8, 12, 20, 33554432, 67108864 }

\* int * int as a build with wrapping 32-bit integers computes it, for
\* 0 <= a < 2^15 and 0 <= b < 2^31: the value, and whether the product is
\* out of the range of int (undefined behaviour)
IntMul(a, b) ==
    LET bl == b % 65536
        h  == a * (b \div 65536) + (a * bl) \div 65536
        hi == h % 65536
        lo == (a * bl) % 65536
    IN  [val |-> IF hi >= 32768 THEN (hi - 65536) * 65536 + lo
                 ELSE hi * 65536 + lo,
         ovf |-> h >= 32768]

\* readall called with a row size; the file is not followed
InitStaging ==
    /\ stream = << >> /\ disk = [arrs |-> << >>, cut |-> -1]
    /\ hostLE = FALSE
    /\ InitReader
    /\ pc = "open"
    /\ rows = 0
    /\ report_step = 1
    /\ buffer = << >>
    /\ rowsize \in RowSizes
    /\ pos = << >>
    /\ alloc = NoAlloc
    /\ ident = NoIdent
    /\ col = NoCol
    /\ staging = NoStaging

\* what the arithmetic of the buffer leaves alone
stagingFrame ==
    << inputVars, offset, eofbit, last, ungetted, msg, hist, report_step,
       buffer, alloc, ident, col >>


\* lines 329-342: the buffer is constructed with 64 * rowsize bytes, an int
\* product converted to size_t: a negative value is more than max_size().
\* The first array is the initial SEQHDR.
StagingOpen ==
    /\ pc = "open"
    /\ \E crash \in BOOLEAN :
        LET n == IntMul(64, rowsize)
        IN  /\ staging' = [NoStaging EXCEPT
                              !.size = IF n.val < 0 \/ (n.ovf /\ crash)
                                       THEN 0 ELSE n.val,
                              !.ovf = n.ovf]
            /\ thrown' = IF n.ovf /\ crash THEN "crash"
                         ELSE IF n.val < 0 THEN "length_error"
                         ELSE "none"
            /\ pc' = IF thrown' # "none" THEN "error" ELSE "loop"
    /\ UNCHANGED << stagingFrame, rows >>

\* lines 345-347 at the top of an iteration: (rows + 1) * rowsize is an
\* int product, compared with buffer.size() as a size_t
StagingGrown ==
    LET p    == IntMul(rows + 1, rowsize)
        grow == p.val < 0 \/ p.val >= staging.size
    IN  [staging EXCEPT !.size = IF grow THEN 2 * @ ELSE @,
                        !.resizes = IF grow THEN 1 ELSE 0,
                        !.row = -1,
                        !.ovf = @ \/ p.ovf]

\* lines 349-395: an iteration that reads MINISTEP and PARAMS and writes
\* row number rows at dst = buffer.data() + rows * rowsize, rowsize bytes
StagingRow ==
    /\ pc = "loop"
    /\ rows < MaxRows
    /\ \E crash \in BOOLEAN :
        LET g  == StagingGrown
            at == IntMul(rows, rowsize)
            ub == g.ovf \/ at.ovf \/ at.val < 0 \/ at.val > g.size - rowsize
        IN  /\ staging' = [g EXCEPT !.row = rows, !.ovf = @ \/ at.ovf]
            /\ thrown' = IF ub /\ crash THEN "crash" ELSE "none"
            /\ pc' = IF thrown' # "none" THEN "error" ELSE "loop"
            /\ rows' = IF thrown' # "none" THEN rows ELSE rows + 1
    /\ UNCHANGED stagingFrame

\* lines 357-368: an iteration that reads a SEQHDR and an array after it
StagingSeqhdr ==
    /\ pc = "loop"
    /\ staging' = StagingGrown
    /\ UNCHANGED << stagingFrame, rows, pc, thrown >>

\* lines 349-355: the iteration that reads the sentinel and leaves the loop
StagingEnd ==
    /\ pc = "loop"
    /\ staging' = StagingGrown
    /\ pc' = "alloc"
    /\ UNCHANGED << stagingFrame, rows, thrown >>

\* an iteration that throws: the stream ends where it may not, or the
\* array is not the one expected
StagingBroken ==
    /\ pc = "loop"
    /\ staging' = StagingGrown
    /\ pc' = "error"
    /\ thrown' = "runtime_error"
    /\ UNCHANGED << stagingFrame, rows >>

NextStaging ==
    \/ StagingOpen
    \/ StagingRow
    \/ StagingSeqhdr
    \/ StagingEnd
    \/ StagingBroken

SpecStaging == InitStaging /\ [][NextStaging]_vars

\* the buffer is constructed with 64 * rowsize bytes
StartsAt64Rows ==
    pc = "open" => /\ pc' = "loop"
                   /\ staging'.size % 64 = 0
                   /\ staging'.size \div 64 = rowsize

\* the size of the buffer changes by doubling only
OnlyDoubles ==
    (pc = "loop" /\ staging'.size # staging.size)
        => staging'.size = 2 * staging.size

\* the row written lies inside the buffer: size >= (row + 1) * rowsize
RowFits == staging.row >= 0 => staging.size \div rowsize >= staging.row + 1

\* C26: the staging buffer starts at 64 * rowsize bytes, its size changes
\* by doubling only, and where row r is written the size is at least
\* (r + 1) * rowsize, for every number of rows and every rowsize >= 8.
C26_StagingBuffer == [][StartsAt64Rows /\ OnlyDoubles /\ RowFits']_vars

\* the part of C26 the code keeps: the same as long as no int product
\* leaves the range of int
C26_WithinInt ==
    [][~staging'.ovf => (StartsAt64Rows /\ OnlyDoubles /\ RowFits')]_vars

\* row 64 and row 128 written, after one and after two doublings
C26_ReachedDoubling ==
    /\ staging.row = 64 /\ staging.size = 128 * rowsize /\ ~staging.ovf

C26_ReachedSecondDoubling ==
    /\ staging.row = 128 /\ staging.size = 256 * rowsize /\ ~staging.ovf


\* a row size of 2^26 bytes: 64 * rowsize wraps to 0, the buffer is empty
\* and stays empty, and row 0 is written past its end
C26_EmptyBuffer ==
    rowsize = 67108864 /\ staging.row = 0 /\ staging.size = 0 /\ rows = 1

----------------------------------------------------------------------------
(* Properties of the markers and of the end-of-stream sentinel             *)

\* the head marker of the header record of array a is negative
NegativeHeaderHead(a) == a.hhead < 0

\* the header record of array a is accepted and the head marker of its
\* first body record is negative
NegativeBodyHead(a) ==
    /\ a.hhead = a.htail /\ TypeIdOk(a.type)
    /\ a.count >= 1 /\ Len(a.recs) >= 1
    /\ a.recs[1].head < 0

\* C27: a record whose head marker is negative makes next() fail with a
\* framing error (head_tail_error); the marker is not used as a length.
C27_NegativeHead ==
    \A i \in 1..NumArrays :
        (ReadOf(i) /\ (NegativeHeaderHead(disk.arrs[i])
                          \/ NegativeBodyHead(disk.arrs[i])))
            => thrown = "head_tail_error"

\* what the code does with a negative marker of a body record: it is the
\* argument of buffer.resize, which throws length_error
C27_BodyResize ==
    \A i \in 1..NumArrays :
        (ReadOf(i) /\ NegativeBodyHead(disk.arrs[i]))
            => thrown = "length_error"

\* a header record with markers -16 and -16 is accepted
C27_HeaderAccepted ==
    /\ NumArrays >= 1 /\ ReadOf(1) /\ NegativeHeaderHead(disk.arrs[1])
    /\ thrown = "none" /\ last.count = 1 /\ hist.nrec = 1


\* C28: the end-of-stream sentinel is sticky: once next() has returned an
\* array with empty() true, every later call, next() or unget(), leaves the
\* sentinel in place and no next() produces an array or an error again.
C28_StickySentinel ==
    [][(hist.calls >= 1 /\ thrown = "none" /\ empty(last))
          => (thrown' = "none" /\ empty(last'))]_vars

\* the part of C28 the code keeps: a sentinel that came from a failed read
\* of a head marker stays
C28_StickyAtEnd ==
    [][(hist.calls >= 1 /\ thrown = "none" /\ empty(last) /\ eofbit)
          => (thrown' = "none" /\ empty(last') /\ eofbit'
              /\ offset' = offset)]_vars

\* C29: next() returns an array with empty() true only when the stream is
\* exhausted; while bytes remain a fresh next() that returns has produced
\* an array with count >= 0 and consumed its body records.
C29_OnlyWhenExhausted ==
    FreshReturn =>
        /\ empty(last) => hist.avail = 0
        /\ hist.avail > 0 =>
              /\ last.count >= 0
              /\ offset > hist.from
              /\ hist.nrec = (last.count + BlockSize(last.type) - 1)
                                 \div BlockSize(last.type)

\* what the code does: the sentinel is returned when fewer than 4 bytes are
\* left, and for a keyword header on disk whose count is -1
C29_SentinelCases ==
    (FreshReturn /\ empty(last))
        => \/ hist.avail < 4
           \/ /\ hist.avail >= 24
              /\ GetNativeInt(Bytes(stream, hist.from + 12, 4)) = -1
              /\ offset = hist.from + 24

\* the header KEY INTE -1 read off the disk and returned as the sentinel,
\* an array of the file following it
C29_CountOnDisk ==
    /\ FreshReturn /\ empty(last) /\ ~eofbit
    /\ last.keyword = KEY /\ hist.avail > 24


\* C30: for every row readall writes and every position p of pos, the 4
\* bytes copied lie inside the body of the PARAMS array just read, whatever
\* count its header declares.
C30_InsideParams ==
    [][(pc = "params" /\ rows' = rows + 1)
          => \A k \in 1..Len(pos) : Inside4(last'.body, pos[k] * 4)]_vars

\* the part of C30 that holds: on a conforming file, whose PARAMS arrays
\* have NList elements, with positions below NList
C30_ConformingParams ==
    [][(pc = "params" /\ rows' = rows + 1 /\ last'.count = NList
            /\ last'.type = REAL)
          => \A k \in 1..Len(pos) : Inside4(last'.body, pos[k] * 4)]_vars

====
